---- MODULE Spec2Model ----
(***************************************************************************)
(* Pairwise condition labelling and statistical comparison pipeline of the *)
(* context-framed-listening analysis code.                                 *)
(*                                                                         *)
(* Units.  A similarity is an integer number of tenths (5 is 0.5, 10 is    *)
(* the self-similarity 1.0).  Means, variances and effect sizes are exact  *)
(* rationals over these integers; the floating-point rounding of numpy is  *)
(* not modelled.  A p-value is an integer number of ten-thousandths.       *)
(* Document indices are 0-based as in the source; sequences are 1-based,   *)
(* so document i is element i + 1.                                         *)
(***************************************************************************)
EXTENDS Integers, Sequences, FiniteSets, TLC

VARIABLES
    METdocs,        \* metadata table: sequence of documents
    cosine_matrix,  \* similarity matrix: sequence of rows
    pc,             \* "loaded", "classified" or "raised"
    sim_df,         \* the Pair Record table (sequence of rows)
    built_by,       \* which copy of the classifier built sim_df
    res,            \* outcome of the last analysis call
    sample1,        \* first sample handed to a statistics primitive
    sample2,        \* second sample handed to a statistics primitive
    p_in,           \* p-value handed to the significance marker
    sim_cols        \* factor keys whose label columns (<key>_i, <key>_j) sim_df has

vars == <<METdocs, cosine_matrix, pc, sim_df, built_by, res, sample1, sample2, p_in, sim_cols>>

\* Largest number of documents of the freely drawn inputs.
MaxDocs == 3

ClipNames == {"A", "B"}
ContextWords == {"X", "Y"}
GenreCodes == {"rock", "jazz"}

\* Off-diagonal similarities the inputs are drawn from (tenths).
SimVals == {-5, 5}

Documents == [clip_name : ClipNames, context_word : ContextWords, genre_code : GenreCodes]

UpperPairs(n) == {p \in (1..n) \X (1..n) : p[1] < p[2]}

\* A symmetric matrix with unit diagonal and the given upper triangle.
MatrixOf(n, up) ==
    [i \in 1..n |-> [j \in 1..n |->
        IF i = j THEN 10 ELSE IF i < j THEN up[<<i, j>>] ELSE up[<<j, i>>]]]

\* The 4-document scenario: clip (A,A,B,B), context (X,Y,X,Y), genre (rock,rock,jazz,jazz).
ScenarioDocs ==
    << [clip_name |-> "A", context_word |-> "X", genre_code |-> "rock"],
       [clip_name |-> "A", context_word |-> "Y", genre_code |-> "rock"],
       [clip_name |-> "B", context_word |-> "X", genre_code |-> "jazz"],
       [clip_name |-> "B", context_word |-> "Y", genre_code |-> "jazz"] >>

----------------------------------------------------------------------------
(* Array access.  numpy raises IndexError for an index past the end.       *)

InRange(xs, i) == i >= 0 /\ i < Len(xs)

\* METdocs[col].values[i]
ColAt(docs, col, i) == docs[i + 1][col]

\* Mutation of MatAt: the indexes are swapped.
MatAt_mut(M, i, j) == M[j + 1][i + 1]

\* cosine_matrix[i, j]
MatAt(M, i, j) == M[i + 1][j + 1]

\* cosine_matrix.shape[0]
Shape0(M) == Len(M)

----------------------------------------------------------------------------
(* The classifier, analysis_utils.extract_similarity_by_condition.         *)

\* Alphabetical rank of a label, for the order comparison of the mutation below.
LabelRank(x) == IF x \in {"A", "X", "jazz"} THEN 1 ELSE 2

\* Mutation of same_value: <= typed for ==.
same_value_mut(docs, col, i, j) ==
    LabelRank(ColAt(docs, col, i)) <= LabelRank(ColAt(docs, col, j))

\* clips[i] == clips[j], contexts[i] == contexts[j], genres[i] == genres[j]
same_value(docs, col, i, j) == ColAt(docs, col, i) = ColAt(docs, col, j)

\* Mutation of condition_of: the genre decides before the context does.
condition_of_mut(same_clip, same_context, same_genre) ==
    IF same_clip /\ same_context THEN "same_clip_same_context"
    ELSE IF same_clip /\ ~same_context THEN "same_clip_diff_context"
    ELSE IF same_genre THEN "diff_clip_diff_context_same_genre"
    ELSE IF ~same_clip /\ same_context THEN "diff_clip_same_context"
    ELSE "diff_clip_diff_context_diff_genre"

\* The if / elif / else chain of analysis_utils.
condition_of(same_clip, same_context, same_genre) ==
    IF same_clip /\ same_context THEN "same_clip_same_context"
    ELSE IF same_clip /\ ~same_context THEN "same_clip_diff_context"
    ELSE IF ~same_clip /\ same_context THEN "diff_clip_same_context"
    ELSE IF same_genre THEN "diff_clip_diff_context_same_genre"
    ELSE "diff_clip_diff_context_diff_genre"

\* Mutation of pair_record: the similarity is read from the diagonal.
pair_record_mut(M, docs, i, j) ==
    LET same_clip == same_value(docs, "clip_name", i, j)
        same_context == same_value(docs, "context_word", i, j)
        same_genre == same_value(docs, "genre_code", i, j)
    IN  [doc_i |-> i, doc_j |-> j, similarity |-> MatAt(M, i, i),
         same_clip |-> same_clip, same_context |-> same_context,
         same_genre |-> same_genre,
         condition |-> condition_of(same_clip, same_context, same_genre)]

\* One record of the table: the appends of one inner-loop iteration.
pair_record(M, docs, i, j) ==
    LET same_clip == same_value(docs, "clip_name", i, j)
        same_context == same_value(docs, "context_word", i, j)
        same_genre == same_value(docs, "genre_code", i, j)
    IN  [doc_i |-> i, doc_j |-> j, similarity |-> MatAt(M, i, j),
         same_clip |-> same_clip, same_context |-> same_context,
         same_genre |-> same_genre,
         condition |-> condition_of(same_clip, same_context, same_genre)]

\* Mutation of inner_start: the inner loop starts at i, so it pairs a document with itself.
inner_start_mut(i) == i

\* for j in range(i + 1, n_docs)
inner_start(i) == i + 1

RECURSIVE pair_loop(_, _, _, _, _, _)
\* for i in range(n_docs): for j in range(i + 1, n_docs): ...
pair_loop(M, docs, n_docs, i, j, acc) ==
    IF i >= n_docs THEN [raised |-> FALSE, rows |-> acc]
    ELSE IF j >= n_docs THEN pair_loop(M, docs, n_docs, i + 1, inner_start(i + 1), acc)
    ELSE IF ~(InRange(M, i) /\ InRange(M[i + 1], j)) THEN [raised |-> TRUE, rows |-> <<>>]
    ELSE IF ~(InRange(docs, i) /\ InRange(docs, j)) THEN [raised |-> TRUE, rows |-> <<>>]
    ELSE pair_loop(M, docs, n_docs, i, j + 1, Append(acc, pair_record(M, docs, i, j)))

\* n_docs = cosine_matrix.shape[0]
extract_similarity_by_condition(M, docs) ==
    pair_loop(M, docs, Shape0(M), 0, inner_start(0), <<>>)

----------------------------------------------------------------------------
(* nlp_analysis_utils.build_similarity_dataframe.  Its index columns are   *)
(* named i and j; the model keeps the names doc_i and doc_j for them.      *)

RECURSIVE pairwise_indices_from(_, _, _, _)
\* pairwise_indices(n): yields (i, j) for i in range(n), j in range(i+1, n)
pairwise_indices_from(n, i, j, acc) ==
    IF i >= n THEN acc
    ELSE IF j >= n THEN pairwise_indices_from(n, i + 1, i + 2, acc)
    ELSE pairwise_indices_from(n, i, j + 1, Append(acc, <<i, j>>))

pairwise_indices(n) == pairwise_indices_from(n, 0, 1, <<>>)

\* Mutation of nlp_condition_of: the first branch also asks for the same
\* genre and the second branch does not test the context.
nlp_condition_of_mut(same_clip, same_context, same_genre) ==
    IF same_clip /\ same_context /\ same_genre THEN "same_clip_same_context"
    ELSE IF same_clip THEN "same_clip_diff_context"
    ELSE IF ~same_clip /\ same_context THEN "diff_clip_same_context"
    ELSE IF same_genre THEN "diff_clip_diff_context_same_genre"
    ELSE "diff_clip_diff_context_diff_genre"

\* The if / elif / else chain of nlp_analysis_utils.
nlp_condition_of(same_clip, same_context, same_genre) ==
    IF same_clip /\ same_context THEN "same_clip_same_context"
    ELSE IF same_clip /\ ~same_context THEN "same_clip_diff_context"
    ELSE IF ~same_clip /\ same_context THEN "diff_clip_same_context"
    ELSE IF same_genre THEN "diff_clip_diff_context_same_genre"
    ELSE "diff_clip_diff_context_diff_genre"

nlp_pair_record(M, docs, i, j) ==
    LET same_clip == ColAt(docs, "clip_name", i) = ColAt(docs, "clip_name", j)
        same_context == ColAt(docs, "context_word", i) = ColAt(docs, "context_word", j)
        same_genre == ColAt(docs, "genre_code", i) = ColAt(docs, "genre_code", j)
    IN  [doc_i |-> i, doc_j |-> j, similarity |-> MatAt(M, i, j),
         same_clip |-> same_clip, same_context |-> same_context,
         same_genre |-> same_genre,
         condition |-> nlp_condition_of(same_clip, same_context, same_genre)]

RECURSIVE nlp_rows(_, _, _, _, _)
nlp_rows(M, docs, idx, k, acc) ==
    IF k > Len(idx) THEN [raised |-> FALSE, rows |-> acc]
    ELSE LET i == idx[k][1]
             j == idx[k][2]
         IN  IF ~(InRange(M, i) /\ InRange(M[i + 1], j)) THEN [raised |-> TRUE, rows |-> <<>>]
             ELSE IF ~(InRange(docs, i) /\ InRange(docs, j)) THEN [raised |-> TRUE, rows |-> <<>>]
             ELSE nlp_rows(M, docs, idx, k + 1, Append(acc, nlp_pair_record(M, docs, i, j)))

\* n = cosine_matrix.shape[0]
build_similarity_dataframe(M, docs) ==
    nlp_rows(M, docs, pairwise_indices(Shape0(M)), 1, <<>>)

----------------------------------------------------------------------------
(* NLP_functions.embedding_utils_w2v.extract_similarity_by_condition; the  *)
(* copies in embedding_utils_bert and embedding_utils_tfidf are the same   *)
(* text.                                                                   *)

\* Mutation of emb_condition_of: the fourth test reads the genre for the context.
emb_condition_of_mut(same_clip, same_context, same_genre) ==
    IF same_clip /\ same_context THEN "same_clip_same_context"
    ELSE IF same_clip /\ ~same_context THEN "same_clip_diff_context"
    ELSE IF ~same_clip /\ same_context THEN "diff_clip_same_context"
    ELSE IF ~same_clip /\ ~same_genre
         THEN (IF same_genre THEN "diff_clip_diff_context_same_genre"
               ELSE "diff_clip_diff_context_diff_genre")
    ELSE "other"

\* The chain of the embedding modules, with its fallback label.
emb_condition_of(same_clip, same_context, same_genre) ==
    IF same_clip /\ same_context THEN "same_clip_same_context"
    ELSE IF same_clip /\ ~same_context THEN "same_clip_diff_context"
    ELSE IF ~same_clip /\ same_context THEN "diff_clip_same_context"
    ELSE IF ~same_clip /\ ~same_context
         THEN (IF same_genre THEN "diff_clip_diff_context_same_genre"
               ELSE "diff_clip_diff_context_diff_genre")
    ELSE "other"

emb_pair_record(M, docs, i, j) ==
    LET same_clip == ColAt(docs, "clip_name", i) = ColAt(docs, "clip_name", j)
        same_context == ColAt(docs, "context_word", i) = ColAt(docs, "context_word", j)
        same_genre == ColAt(docs, "genre_code", i) = ColAt(docs, "genre_code", j)
    IN  [doc_i |-> i, doc_j |-> j, similarity |-> MatAt(M, i, j),
         same_clip |-> same_clip, same_context |-> same_context,
         same_genre |-> same_genre,
         condition |-> emb_condition_of(same_clip, same_context, same_genre)]

RECURSIVE emb_pair_loop(_, _, _, _, _, _)
emb_pair_loop(M, docs, n_docs, i, j, acc) ==
    IF i >= n_docs THEN [raised |-> FALSE, rows |-> acc]
    ELSE IF j >= n_docs THEN emb_pair_loop(M, docs, n_docs, i + 1, i + 2, acc)
    ELSE IF ~(InRange(M, i) /\ InRange(M[i + 1], j)) THEN [raised |-> TRUE, rows |-> <<>>]
    ELSE IF ~(InRange(docs, i) /\ InRange(docs, j)) THEN [raised |-> TRUE, rows |-> <<>>]
    ELSE emb_pair_loop(M, docs, n_docs, i, j + 1, Append(acc, emb_pair_record(M, docs, i, j)))

\* n_docs = len(metadata_df)
emb_extract_similarity_by_condition(M, docs) ==
    emb_pair_loop(M, docs, Len(docs), 0, 1, <<>>)

----------------------------------------------------------------------------
(* Numbers.  A float is one of                                             *)
(*   [k |-> "nan"]                    the undefined value NaN              *)
(*   [k |-> "inf", s |-> 1 or -1]     an infinity                          *)
(*   [k |-> "num", s, n, d]           the real s * sqrt(n / d), with       *)
(*                                    s in {-1, 0, 1}, n / d in lowest     *)
(*                                    terms, and n = 0, d = 1 when s = 0   *)
(* so that means (rationals), standard deviations (square roots of         *)
(* rationals) and their quotients are all exact and equal numbers have     *)
(* equal representations.                                                  *)

NaN == [k |-> "nan"]

Inf(s) == [k |-> "inf", s |-> s]

Sign(x) == IF x > 0 THEN 1 ELSE IF x < 0 THEN -1 ELSE 0

Abs(x) == IF x < 0 THEN -x ELSE x

RECURSIVE Gcd(_, _)
Gcd(a, b) == IF b = 0 THEN a ELSE Gcd(b, a % b)

\* s * sqrt(n / d) for n >= 0, d > 0, in normal form.
Num(s, n, d) ==
    IF s = 0 \/ n = 0 THEN [k |-> "num", s |-> 0, n |-> 0, d |-> 1]
    ELSE LET g == Gcd(n, d)
         IN  [k |-> "num", s |-> s, n |-> n \div g, d |-> d \div g]

\* The rational a / b, b > 0, reduced before it is squared.
Rat(a, b) ==
    IF a = 0 THEN Num(0, 0, 1)
    ELSE LET g == Gcd(Abs(a), b)
         IN  Num(Sign(a), (Abs(a) \div g) * (Abs(a) \div g), (b \div g) * (b \div g))

IsNaN(x) == x.k = "nan"

\* x == 0, x > 0, x != 0: every comparison with NaN is false, and != is its negation.
EqZero(x) == x.k = "num" /\ x.s = 0

GtZero(x) == (x.k = "num" /\ x.s > 0) \/ (x.k = "inf" /\ x.s > 0)

NeZero(x) == ~EqZero(x)

\* Python truth value of a float: false only for zero (NaN is true).
Truthy(x) == ~EqZero(x)

\* -x
Neg(x) ==
    IF x.k = "nan" THEN NaN
    ELSE IF x.k = "inf" THEN Inf(-x.s)
    ELSE Num(-x.s, x.n, x.d)

\* x ** 2 of a finite value: the rational n / d.
FSquare(x) == IF x.k = "num" THEN Num(Sign(x.n), x.n * x.n, x.d * x.d) ELSE NaN

RECURSIVE ISqrt(_, _, _)
\* The integer r in lo..hi with r * r = m, by bisection (-1 if none).
ISqrt(m, lo, hi) ==
    IF lo > hi THEN -1
    ELSE LET mid == (lo + hi) \div 2
         IN  IF mid * mid = m THEN mid
             ELSE IF mid * mid < m THEN ISqrt(m, mid + 1, hi)
             ELSE ISqrt(m, lo, mid - 1)

\* The root of a perfect square below 2^31.
RootOf(m) == ISqrt(m, 0, IF m < 46340 THEN m ELSE 46340)

\* Numerator and denominator of a finite rational value (one with square n, d).
RatN(x) == x.s * RootOf(x.n)

RatD(x) == RootOf(x.d)

\* x + y and x - y of two rationals (NaN propagates).
FAdd(x, y) ==
    IF x.k # "num" \/ y.k # "num" THEN NaN
    ELSE Rat(RatN(x) * RatD(y) + RatN(y) * RatD(x), RatD(x) * RatD(y))

FSub(x, y) ==
    IF x.k # "num" \/ y.k # "num" THEN NaN
    ELSE Rat(RatN(x) * RatD(y) - RatN(y) * RatD(x), RatD(x) * RatD(y))

\* x / 2 of a rational.
FHalf(x) == IF x.k # "num" THEN NaN ELSE Rat(RatN(x), 2 * RatD(x))

\* np.sqrt of a rational: NaN for a negative one.
np_sqrt(x) == IF x.k # "num" \/ x.s < 0 THEN NaN ELSE Num(x.s, Abs(RatN(x)), RatD(x))

\* numpy float64 division: x / 0 is an infinity (NaN for 0 / 0), never an exception.
FDiv(x, y) ==
    IF x.k # "num" \/ y.k # "num" THEN NaN
    ELSE IF y.s = 0 THEN (IF x.s = 0 THEN NaN ELSE Inf(x.s))
    ELSE Num(x.s * y.s, x.n * y.d, x.d * y.n)

RECURSIVE SeqSum(_)
SeqSum(xs) == IF xs = <<>> THEN 0 ELSE Head(xs) + SeqSum(Tail(xs))

RECURSIVE SeqSumSq(_)
SeqSumSq(xs) == IF xs = <<>> THEN 0 ELSE Head(xs) * Head(xs) + SeqSumSq(Tail(xs))

\* pandas Series.mean(): NaN for an empty series.
series_mean(xs) == IF Len(xs) = 0 THEN NaN ELSE Rat(SeqSum(xs), Len(xs))

\* pandas Series.std() (ddof = 1): NaN for fewer than two values.
series_std(xs) ==
    IF Len(xs) < 2 THEN NaN
    ELSE LET n == Len(xs)
         IN  np_sqrt(Rat(n * SeqSumSq(xs) - SeqSum(xs) * SeqSum(xs), n * (n - 1)))

----------------------------------------------------------------------------
(* Significance markers.  A p-value is [k |-> "num", v |-> ten-thousandths] *)
(* or [k |-> "nan"]; 0.001, 0.01 and 0.05 are 10, 100 and 500.              *)

PNaN == [k |-> "nan"]

PNum(v) == [k |-> "num", v |-> v]

\* Mutation of p_lt: <= for <.
p_lt_mut(p, c) == p.k = "num" /\ p.v <= c

\* p < c: false for NaN.
p_lt(p, c) == p.k = "num" /\ p.v < c

\* analysis_utils.get_significance_marker
get_significance_marker(p_val) ==
    IF p_lt(p_val, 10) THEN "***"
    ELSE IF p_lt(p_val, 100) THEN "**"
    ELSE IF p_lt(p_val, 500) THEN "*"
    ELSE "n.s."

\* nlp_analysis_utils._sig_from_p
sig_from_p(p) ==
    IF p.k = "num" /\ p.v < 10 THEN "***"
    ELSE IF p.k = "num" /\ p.v < 100 THEN "**"
    ELSE IF p.k = "num" /\ p.v < 500 THEN "*"
    ELSE "n.s."

\* The conditional expression repeated inline in nlp_analysis_utils.
nlp_sig(p) ==
    IF p.k = "num" /\ p.v < 10 THEN "***"
    ELSE IF p.k = "num" /\ p.v < 100 THEN "**"
    ELSE IF p.k = "num" /\ p.v < 500 THEN "*"
    ELSE "n.s."

\* The if / elif chain repeated inline in NLP_functions.
fn_sig(p_value) ==
    IF p_value.k = "num" /\ p_value.v < 10 THEN "***"
    ELSE IF p_value.k = "num" /\ p_value.v < 100 THEN "**"
    ELSE IF p_value.k = "num" /\ p_value.v < 500 THEN "*"
    ELSE "n.s."

----------------------------------------------------------------------------
(* Effect size and coefficient of variation.                               *)

\* np.sqrt((group1.std()**2 + group2.std()**2) / 2)
pooled_std_of(group1, group2) ==
    np_sqrt(FHalf(FAdd(FSquare(series_std(group1)), FSquare(series_std(group2)))))

\* Mutation of compute_cohens_d: the first group's deviation is used twice.
compute_cohens_d_mut(group1, group2) ==
    LET pooled_std == pooled_std_of(group1, group1)
    IN  IF EqZero(pooled_std) THEN NaN
        ELSE FDiv(FSub(series_mean(group1), series_mean(group2)), pooled_std)

\* analysis_utils.compute_cohens_d
compute_cohens_d(group1, group2) ==
    LET pooled_std == pooled_std_of(group1, group2)
    IN  IF EqZero(pooled_std) THEN NaN
        ELSE FDiv(FSub(series_mean(group1), series_mean(group2)), pooled_std)

\* nlp_analysis_utils.compare_binary, inline
nlp_binary_d(same, diff) ==
    LET pooled == IF Len(same) > 1 /\ Len(diff) > 1
                  THEN np_sqrt(FHalf(FAdd(FSquare(series_std(same)), FSquare(series_std(diff)))))
                  ELSE NaN
    IN  IF Truthy(pooled) /\ GtZero(pooled)
        THEN FDiv(FSub(series_mean(same), series_mean(diff)), pooled)
        ELSE NaN

\* nlp_analysis_utils.compare_conditions and its per-level comparisons, inline
nlp_d(a, b) ==
    LET pooled == np_sqrt(FHalf(FAdd(FSquare(series_std(a)), FSquare(series_std(b)))))
    IN  IF GtZero(pooled)
        THEN FDiv(FSub(series_mean(a), series_mean(b)), pooled)
        ELSE NaN

\* NLP_functions.comparison_functions and analysis_functions, inline: no guard
fn_d(data1, data2) ==
    LET pooled_std == np_sqrt(FHalf(FAdd(FSquare(series_std(data1)), FSquare(series_std(data2)))))
    IN  FDiv(FSub(series_mean(data1), series_mean(data2)), pooled_std)

\* analysis_utils.safe_cv
safe_cv(std, mean) ==
    IF EqZero(mean) \/ IsNaN(mean) THEN NaN ELSE FDiv(std, mean)

\* nlp_analysis_utils.analyze_within_factor_similarity, inline
nlp_cv(vals) ==
    LET mean == series_mean(vals)
        std == series_std(vals)
    IN  IF NeZero(mean) THEN FDiv(std, mean) ELSE NaN

\* NLP_functions.analysis_functions, inline: no guard
fn_cv(factor_sims) == FDiv(series_std(factor_sims), series_mean(factor_sims))

----------------------------------------------------------------------------
(* State machine.                                                          *)

Classifiers == {"analysis_utils", "nlp_analysis_utils", "embedding_utils"}

\* The classifier copy named c applied to the inputs.
classify(c, M, docs) ==
    IF c = "analysis_utils" THEN extract_similarity_by_condition(M, docs)
    ELSE IF c = "nlp_analysis_utils" THEN build_similarity_dataframe(M, docs)
    ELSE emb_extract_similarity_by_condition(M, docs)

NoResult == [fn |-> "none"]

\* Inputs: any metadata of up to MaxDocs documents with any matrix of that
\* dimension, and the 4-document scenario with any off-diagonal values.
Init ==
    /\ \/ \E n \in 0..MaxDocs :
            /\ METdocs \in [1..n -> Documents]
            /\ \E up \in [UpperPairs(n) -> SimVals] : cosine_matrix = MatrixOf(n, up)
       \/ /\ METdocs = ScenarioDocs
          /\ \E up \in [UpperPairs(4) -> SimVals] : cosine_matrix = MatrixOf(4, up)
    /\ pc = "loaded"
    /\ sim_df = <<>>
    /\ built_by = "none"
    /\ res = NoResult
    /\ sample1 = <<>>
    /\ sample2 = <<>>
    /\ p_in = PNaN
    /\ sim_cols = {}

\* A call of one classifier copy on the loaded inputs.
Classify(c) ==
    /\ pc = "loaded"
    /\ LET out == classify(c, cosine_matrix, METdocs)
       IN  /\ pc' = IF out.raised THEN "raised" ELSE "classified"
           /\ sim_df' = out.rows
    /\ built_by' = c
    /\ UNCHANGED <<METdocs, cosine_matrix, res, sample1, sample2, p_in, sim_cols>>

Next ==
    \E c \in Classifiers : Classify(c)

Spec == Init /\ [][Next]_vars

----------------------------------------------------------------------------
(* The named-condition comparator, one copy per module.  The t statistic   *)
(* and the p-value come from scipy.stats.ttest_ind, an external library:   *)
(* the p-value is an input of the model, drawn from ttest_ind_p.           *)

None == [kind |-> "none"]

RECURSIVE similarity_where(_, _)
\* sim_df[sim_df["condition"] == cond]["similarity"]
similarity_where(rows, cond) ==
    IF rows = <<>> THEN <<>>
    ELSE IF Head(rows).condition = cond
         THEN <<Head(rows).similarity>> \o similarity_where(Tail(rows), cond)
         ELSE similarity_where(Tail(rows), cond)

\* The p-values ttest_ind may return: NaN when a sample has no variance
\* estimate (fewer than two values) or for 0 / 0 (no variance, equal means),
\* 0 for an infinite t (no variance, different means), otherwise some
\* probability, here one per marker class.
ttest_ind_p(a, b) ==
    IF Len(a) < 2 \/ Len(b) < 2 THEN {PNaN}
    ELSE IF EqZero(pooled_std_of(a, b))
    THEN (IF EqZero(FSub(series_mean(a), series_mean(b))) THEN {PNaN} ELSE {PNum(0)})
    ELSE {PNum(5), PNum(50), PNum(250), PNum(5000)}

\* Mutation of compare_conditions: the size test is < 1.
compare_conditions_mut(df, cond1, cond2, p_value) ==
    LET data1 == similarity_where(df, cond1)
        data2 == similarity_where(df, cond2)
    IN  IF Len(data1) < 1 \/ Len(data2) < 1 THEN None
        ELSE [kind |-> "record",
              mean1 |-> series_mean(data1), mean2 |-> series_mean(data2),
              diff |-> FSub(series_mean(data1), series_mean(data2)),
              p |-> p_value, sig |-> get_significance_marker(p_value),
              d |-> compute_cohens_d(data1, data2),
              n1 |-> Len(data1), n2 |-> Len(data2)]

\* analysis_utils.compare_conditions
compare_conditions(df, cond1, cond2, p_value) ==
    LET data1 == similarity_where(df, cond1)
        data2 == similarity_where(df, cond2)
    IN  IF Len(data1) < 2 \/ Len(data2) < 2 THEN None
        ELSE [kind |-> "record",
              mean1 |-> series_mean(data1), mean2 |-> series_mean(data2),
              diff |-> FSub(series_mean(data1), series_mean(data2)),
              p |-> p_value, sig |-> get_significance_marker(p_value),
              d |-> compute_cohens_d(data1, data2),
              n1 |-> Len(data1), n2 |-> Len(data2)]

\* nlp_analysis_utils.compare_conditions
nlp_compare_conditions(df, cond1, cond2, p) ==
    LET a == similarity_where(df, cond1)
        b == similarity_where(df, cond2)
    IN  IF Len(a) < 2 \/ Len(b) < 2 THEN None
        ELSE [kind |-> "record",
              mean1 |-> series_mean(a), mean2 |-> series_mean(b),
              diff |-> FSub(series_mean(a), series_mean(b)),
              p |-> p, sig |-> nlp_sig(p),
              d |-> nlp_d(a, b),
              n1 |-> Len(a), n2 |-> Len(b)]

\* NLP_functions.comparison_functions.compare_conditions
fn_compare_conditions(df, cond1, cond2, p_value) ==
    LET data1 == similarity_where(df, cond1)
        data2 == similarity_where(df, cond2)
    IN  IF Len(data1) < 2 \/ Len(data2) < 2 THEN None
        ELSE [kind |-> "record",
              mean1 |-> series_mean(data1), mean2 |-> series_mean(data2),
              diff |-> FSub(series_mean(data1), series_mean(data2)),
              p |-> p_value, sig |-> fn_sig(p_value),
              d |-> fn_d(data1, data2),
              n1 |-> Len(data1), n2 |-> Len(data2)]

\* The comparator that goes with each classifier copy: analysis_utils and
\* nlp_analysis_utils hold both; the NLP_functions package exports the
\* embedding modules' classifier with comparison_functions.
compare_conditions_of(c, df, cond1, cond2, p) ==
    IF c = "analysis_utils" THEN compare_conditions(df, cond1, cond2, p)
    ELSE IF c = "nlp_analysis_utils" THEN nlp_compare_conditions(df, cond1, cond2, p)
    ELSE fn_compare_conditions(df, cond1, cond2, p)

\* Condition arguments a caller may pass: the five labels and one that never occurs.
ConditionArgs ==
    {"same_clip_same_context", "same_clip_diff_context", "diff_clip_same_context",
     "diff_clip_diff_context_same_genre", "diff_clip_diff_context_diff_genre", "other"}

\* compare_conditions(sim_df, cond1, cond2, ...) on a classified table.
CompareConditions(cond1, cond2) ==
    /\ pc = "classified"
    /\ \E p \in ttest_ind_p(similarity_where(sim_df, cond1), similarity_where(sim_df, cond2)) :
          res' = [fn |-> "compare_conditions", module |-> built_by,
                  cond1 |-> cond1, cond2 |-> cond2,
                  out |-> compare_conditions_of(built_by, sim_df, cond1, cond2, p)]
    /\ pc' = "called"
    /\ UNCHANGED <<METdocs, cosine_matrix, sim_df, built_by, sample1, sample2, p_in, sim_cols>>

NextCompare ==
    \/ \E c \in Classifiers : Classify(c)
    \/ \E cond1, cond2 \in ConditionArgs : CompareConditions(cond1, cond2)

SpecCompare == Init /\ [][NextCompare]_vars

----------------------------------------------------------------------------
(* The statistics primitives on their own: two samples, or a p-value.      *)

\* Largest sample handed to a primitive.
MaxSample == 3

\* Largest p-value handed to the marker, in ten-thousandths.
MaxP == 501

\* Similarities the samples are drawn from (tenths).
SampleVals == {-5, 0, 5}

Samples == UNION {[1..n -> SampleVals] : n \in 0..MaxSample}

PVals == {PNum(v) : v \in 0..MaxP} \cup {PNaN}

InitStats ==
    /\ METdocs = <<>>
    /\ cosine_matrix = <<>>
    /\ sim_df = <<>>
    /\ built_by = "none"
    /\ res = NoResult
    /\ pc = "stats"
    /\ sim_cols = {}
    /\ \/ sample1 \in Samples /\ sample2 \in Samples /\ p_in = PNaN
       \/ sample1 = <<>> /\ sample2 = <<>> /\ p_in \in PVals

EffectSizeCopies == {"compute_cohens_d", "nlp_binary_d", "nlp_d", "fn_d"}

\* The copy named c of the effect-size computation.
cohens_d_of(c, a, b) ==
    IF c = "compute_cohens_d" THEN compute_cohens_d(a, b)
    ELSE IF c = "nlp_binary_d" THEN nlp_binary_d(a, b)
    ELSE IF c = "nlp_d" THEN nlp_d(a, b)
    ELSE fn_d(a, b)

\* An effect-size computation.  compare_binary calls it for samples of any
\* size; nlp_d is only reached with at least two values in each sample.
CohensD(c) ==
    /\ pc = "stats"
    /\ c = "nlp_d" => (Len(sample1) > 1 /\ Len(sample2) > 1)
    /\ res' = [fn |-> "cohens_d", copy |-> c, d |-> cohens_d_of(c, sample1, sample2)]
    /\ pc' = "called"
    /\ UNCHANGED <<METdocs, cosine_matrix, sim_df, built_by, sample1, sample2, p_in, sim_cols>>

CVCopies == {"safe_cv", "nlp_cv", "fn_cv"}

\* The copy named c of the coefficient of variation of a level's pair set.
cv_of(c, xs) ==
    IF c = "safe_cv" THEN safe_cv(series_std(xs), series_mean(xs))
    ELSE IF c = "nlp_cv" THEN nlp_cv(xs)
    ELSE fn_cv(xs)

\* The CV of a factor level: computed only for a level with at least one pair.
CoefficientOfVariation(c) ==
    /\ pc = "stats"
    /\ Len(sample1) > 0
    /\ res' = [fn |-> "cv", copy |-> c, cv |-> cv_of(c, sample1)]
    /\ pc' = "called"
    /\ UNCHANGED <<METdocs, cosine_matrix, sim_df, built_by, sample1, sample2, p_in, sim_cols>>

MarkerCopies == {"get_significance_marker", "sig_from_p", "nlp_sig", "fn_sig"}

\* The copy named c of the significance marker.
marker_of(c, p) ==
    IF c = "get_significance_marker" THEN get_significance_marker(p)
    ELSE IF c = "sig_from_p" THEN sig_from_p(p)
    ELSE IF c = "nlp_sig" THEN nlp_sig(p)
    ELSE fn_sig(p)

SignificanceMarker(c) ==
    /\ pc = "stats"
    /\ sample1 = <<>> /\ sample2 = <<>>
    /\ res' = [fn |-> "sig", copy |-> c, sig |-> marker_of(c, p_in)]
    /\ pc' = "called"
    /\ UNCHANGED <<METdocs, cosine_matrix, sim_df, built_by, sample1, sample2, p_in, sim_cols>>

NextStats ==
    \/ \E c \in EffectSizeCopies : CohensD(c)
    \/ \E c \in CVCopies : CoefficientOfVariation(c)
    \/ \E c \in MarkerCopies : SignificanceMarker(c)

SpecStats == InitStats /\ [][NextStats]_vars

----------------------------------------------------------------------------
(* The binary comparator, the combined comparisons and the omnibus test.   *)

RECURSIVE similarity_flag(_, _, _)
\* sim_df[sim_df[column] == flag]["similarity"]
similarity_flag(rows, column, flag) ==
    IF rows = <<>> THEN <<>>
    ELSE IF Head(rows)[column] = flag
         THEN <<Head(rows).similarity>> \o similarity_flag(Tail(rows), column, flag)
         ELSE similarity_flag(Tail(rows), column, flag)

\* Mutation of compare_binary: the size test of compare_conditions is applied.
compare_binary_mut(df, column, p_value) ==
    LET same_data == similarity_flag(df, column, TRUE)
        diff_data == similarity_flag(df, column, FALSE)
    IN  IF Len(same_data) < 2 \/ Len(diff_data) < 2 THEN None
        ELSE [kind |-> "record",
              mean_same |-> series_mean(same_data), mean_diff |-> series_mean(diff_data),
              diff |-> FSub(series_mean(same_data), series_mean(diff_data)),
              p |-> p_value, sig |-> get_significance_marker(p_value),
              d |-> compute_cohens_d(same_data, diff_data),
              n_same |-> Len(same_data), n_diff |-> Len(diff_data)]

\* analysis_utils.compare_binary
compare_binary(df, column, p_value) ==
    LET same_data == similarity_flag(df, column, TRUE)
        diff_data == similarity_flag(df, column, FALSE)
    IN  [kind |-> "record",
         mean_same |-> series_mean(same_data), mean_diff |-> series_mean(diff_data),
         diff |-> FSub(series_mean(same_data), series_mean(diff_data)),
         p |-> p_value, sig |-> get_significance_marker(p_value),
         d |-> compute_cohens_d(same_data, diff_data),
         n_same |-> Len(same_data), n_diff |-> Len(diff_data)]

\* nlp_analysis_utils.compare_binary
nlp_compare_binary(df, column, p) ==
    LET same == similarity_flag(df, column, TRUE)
        diff == similarity_flag(df, column, FALSE)
    IN  [kind |-> "record",
         mean_same |-> series_mean(same), mean_diff |-> series_mean(diff),
         diff |-> FSub(series_mean(same), series_mean(diff)),
         p |-> p, sig |-> nlp_sig(p),
         d |-> nlp_binary_d(same, diff),
         n_same |-> Len(same), n_diff |-> Len(diff)]

\* NLP_functions.comparison_functions.compare_binary
fn_compare_binary(df, column, p_value) ==
    LET same_data == similarity_flag(df, column, TRUE)
        diff_data == similarity_flag(df, column, FALSE)
    IN  [kind |-> "record",
         mean_same |-> series_mean(same_data), mean_diff |-> series_mean(diff_data),
         diff |-> FSub(series_mean(same_data), series_mean(diff_data)),
         p |-> p_value, sig |-> fn_sig(p_value),
         d |-> fn_d(same_data, diff_data),
         n_same |-> Len(same_data), n_diff |-> Len(diff_data)]

\* The binary comparator that goes with each classifier copy.
compare_binary_of(c, df, column, p) ==
    IF c = "analysis_utils" THEN compare_binary(df, column, p)
    ELSE IF c = "nlp_analysis_utils" THEN nlp_compare_binary(df, column, p)
    ELSE fn_compare_binary(df, column, p)

\* The boolean columns of the table.
FlagColumns == {"same_clip", "same_context", "same_genre"}

\* compare_binary(sim_df, column, label) on a classified table.
CompareBinary(column) ==
    /\ pc = "classified"
    /\ \E p \in ttest_ind_p(similarity_flag(sim_df, column, TRUE),
                            similarity_flag(sim_df, column, FALSE)) :
          res' = [fn |-> "compare_binary", module |-> built_by, column |-> column,
                  out |-> compare_binary_of(built_by, sim_df, column, p)]
    /\ pc' = "called"
    /\ UNCHANGED <<METdocs, cosine_matrix, sim_df, built_by, sample1, sample2, p_in, sim_cols>>

\* An exception leaving the called function.
Raised(error) == [kind |-> "raised", error |-> error]

\* NLP_functions.comparison_functions.run_combined_comparisons: the result
\* of each compare_conditions call is subscripted right after the call.
run_combined_comparisons(df, p1, p2) ==
    LET primary_effect == fn_compare_conditions(df, "same_clip_diff_context",
                                                "diff_clip_same_context", p1)
        genre_effect == fn_compare_conditions(df, "diff_clip_diff_context_same_genre",
                                              "diff_clip_diff_context_diff_genre", p2)
    IN  IF primary_effect = None THEN Raised("TypeError")
        ELSE IF genre_effect = None THEN Raised("TypeError")
        ELSE [kind |-> "dict", primary |-> primary_effect, genre |-> genre_effect]

\* run_combined_comparisons(sim_df) on a table of the embedding classifier.
RunCombinedComparisons ==
    /\ pc = "classified"
    /\ built_by = "embedding_utils"
    /\ \E p1 \in ttest_ind_p(similarity_where(sim_df, "same_clip_diff_context"),
                             similarity_where(sim_df, "diff_clip_same_context")),
          p2 \in ttest_ind_p(similarity_where(sim_df, "diff_clip_diff_context_same_genre"),
                             similarity_where(sim_df, "diff_clip_diff_context_diff_genre")) :
          res' = [fn |-> "run_combined_comparisons", module |-> built_by,
                  out |-> run_combined_comparisons(sim_df, p1, p2)]
    /\ pc' = "called"
    /\ UNCHANGED <<METdocs, cosine_matrix, sim_df, built_by, sample1, sample2, p_in, sim_cols>>

RECURSIVE unique_conditions(_, _)
\* sim_df['condition'].unique(): the labels in order of first appearance.
unique_conditions(rows, acc) ==
    IF rows = <<>> THEN acc
    ELSE IF \E k \in DOMAIN acc : acc[k] = Head(rows).condition
         THEN unique_conditions(Tail(rows), acc)
         ELSE unique_conditions(Tail(rows), Append(acc, Head(rows).condition))

\* k * x for an integer k and a rational x.
FMulInt(k, x) == IF x.k # "num" THEN NaN ELSE Rat(k * RatN(x), RatD(x))

RECURSIVE similarity_column(_)
\* sim_df['similarity']
similarity_column(rows) ==
    IF rows = <<>> THEN <<>> ELSE <<Head(rows).similarity>> \o similarity_column(Tail(rows))

RECURSIVE ss_between_sum(_, _, _)
\* sum(len(g) * (g.mean() - sim_df['similarity'].mean())**2 for g in groups)
ss_between_sum(df, conds, grand) ==
    IF conds = <<>> THEN Rat(0, 1)
    ELSE LET g == similarity_where(df, Head(conds))
         IN  FAdd(FMulInt(Len(g), FSquare(FSub(series_mean(g), grand))),
                  ss_between_sum(df, Tail(conds), grand))

RECURSIVE ss_total_sum(_, _)
\* sum((sim_df['similarity'] - sim_df['similarity'].mean())**2)
ss_total_sum(xs, grand) ==
    IF xs = <<>> THEN Rat(0, 1)
    ELSE FAdd(FSquare(FSub(Rat(Head(xs), 1), grand)), ss_total_sum(Tail(xs), grand))

\* The p-values f_oneway may return (NaN for degenerate groups).
f_oneway_p == {PNaN, PNum(5), PNum(5000)}

\* Mutation of run_omnibus_test: the number of conditions is reported as the constant 5.
run_omnibus_test_mut(df, p_anova) ==
    LET conditions_list == unique_conditions(df, <<>>)
        grand == series_mean(similarity_column(df))
    IN  IF Len(conditions_list) < 2 THEN Raised("TypeError")
        ELSE [kind |-> "dict",
              p_value |-> p_anova,
              eta_squared |-> FDiv(ss_between_sum(df, conditions_list, grand),
                                   ss_total_sum(similarity_column(df), grand)),
              n_conditions |-> 5]

\* NLP_functions.comparison_functions.run_omnibus_test; stats.f_oneway raises
\* TypeError for fewer than two groups.  The F statistic is scipy's and is
\* not part of the modelled result.
run_omnibus_test(df, p_anova) ==
    LET conditions_list == unique_conditions(df, <<>>)
        grand == series_mean(similarity_column(df))
    IN  IF Len(conditions_list) < 2 THEN Raised("TypeError")
        ELSE [kind |-> "dict",
              p_value |-> p_anova,
              eta_squared |-> FDiv(ss_between_sum(df, conditions_list, grand),
                                   ss_total_sum(similarity_column(df), grand)),
              n_conditions |-> Len(conditions_list)]

\* run_omnibus_test(sim_df) on a table of the embedding classifier.
RunOmnibusTest ==
    /\ pc = "classified"
    /\ built_by = "embedding_utils"
    /\ \E p \in f_oneway_p :
          res' = [fn |-> "run_omnibus_test", module |-> built_by,
                  out |-> run_omnibus_test(sim_df, p)]
    /\ pc' = "called"
    /\ UNCHANGED <<METdocs, cosine_matrix, sim_df, built_by, sample1, sample2, p_in, sim_cols>>

\* A 5-document table in which all five conditions occur.
FiveConditionDocs ==
    << [clip_name |-> "A", context_word |-> "X", genre_code |-> "rock"],
       [clip_name |-> "A", context_word |-> "X", genre_code |-> "rock"],
       [clip_name |-> "A", context_word |-> "Y", genre_code |-> "rock"],
       [clip_name |-> "B", context_word |-> "X", genre_code |-> "rock"],
       [clip_name |-> "C", context_word |-> "Y", genre_code |-> "jazz"] >>

\* Inputs of the comparators: those of Init, and the five-condition table
\* with any off-diagonal values.
InitComparators ==
    /\ \/ \E n \in 0..MaxDocs :
            /\ METdocs \in [1..n -> Documents]
            /\ \E up \in [UpperPairs(n) -> SimVals] : cosine_matrix = MatrixOf(n, up)
       \/ /\ METdocs = ScenarioDocs
          /\ \E up \in [UpperPairs(4) -> SimVals] : cosine_matrix = MatrixOf(4, up)
       \/ /\ METdocs = FiveConditionDocs
          /\ \E up \in [UpperPairs(5) -> SimVals] : cosine_matrix = MatrixOf(5, up)
    /\ pc = "loaded"
    /\ sim_df = <<>>
    /\ built_by = "none"
    /\ res = NoResult
    /\ sample1 = <<>>
    /\ sample2 = <<>>
    /\ p_in = PNaN
    /\ sim_cols = {}

NextComparators ==
    \/ \E c \in Classifiers : Classify(c)
    \/ \E column \in FlagColumns : CompareBinary(column)
    \/ RunCombinedComparisons
    \/ RunOmnibusTest

SpecComparators == InitComparators /\ [][NextComparators]_vars

----------------------------------------------------------------------------
(* The factor analyses.  A factor is analysed under a name ("Context" or   *)
(* "Genre") and a metadata column; its levels are the values of that       *)
(* column.  The analyses read the label columns <key>_i and <key>_j of     *)
(* sim_df; a table is the list of its rows, and a call returns either      *)
(* [kind |-> "table", rows |-> ...] or an exception.                       *)

FactorNames == {"Context", "Genre"}

\* The metadata column each factor name is analysed with.
factor_column_of(factor_name) ==
    IF factor_name = "Context" THEN "context_word" ELSE "genre_code"

\* factor_name.lower()
lower(factor_name) == IF factor_name = "Context" THEN "context" ELSE "genre"

\* factor_column.split('_')[0]
get_factor_key(factor_column) ==
    IF factor_column = "context_word" THEN "context" ELSE "genre"

\* f'{factor_key}_i'
label_i(factor_key) == IF factor_key = "context" THEN "context_i" ELSE "genre_i"

\* f'{factor_key}_j'
label_j(factor_key) == IF factor_key = "context" THEN "context_j" ELSE "genre_j"

RECURSIVE unique_from(_, _, _, _)
\* metadata[factor_column].unique(): the values in order of first appearance.
unique_from(metadata, factor_column, k, acc) ==
    IF k > Len(metadata) THEN acc
    ELSE LET v == metadata[k][factor_column]
         IN  unique_from(metadata, factor_column, k + 1,
                         IF \E x \in DOMAIN acc : acc[x] = v THEN acc ELSE Append(acc, v))

unique(metadata, factor_column) == unique_from(metadata, factor_column, 1, <<>>)

\* Mutation of add_factor_labels: the first label is also written over the
\* condition column.
add_factor_labels_mut(df, metadata, factor_name) ==
    LET factor_column == factor_column_of(factor_name)
        factor_col_i == label_i(lower(factor_name))
        factor_col_j == label_j(lower(factor_name))
    IN  [k \in DOMAIN df |->
            ("condition" :> ColAt(metadata, factor_column, df[k].doc_i))
            @@ (factor_col_i :> ColAt(metadata, factor_column, df[k].doc_i))
            @@ (factor_col_j :> ColAt(metadata, factor_column, df[k].doc_j))
            @@ df[k]]

\* The labelling of the pair table, as run_factor_analysis does it before
\* its analyses (and as the callers of the other modules do it themselves):
\* sim_df[<key>_i] = sim_df['doc_i'].map(lambda x: factor_values[x]).
add_factor_labels(df, metadata, factor_name) ==
    LET factor_column == factor_column_of(factor_name)
        factor_col_i == label_i(lower(factor_name))
        factor_col_j == label_j(lower(factor_name))
    IN  [k \in DOMAIN df |->
            (factor_col_i :> ColAt(metadata, factor_column, df[k].doc_i))
            @@ (factor_col_j :> ColAt(metadata, factor_column, df[k].doc_j))
            @@ df[k]]

\* The labelling step; nothing is done when the columns are already there.
AddFactorLabels(factor_name) ==
    /\ pc = "classified"
    /\ lower(factor_name) \notin sim_cols
    /\ sim_df' = add_factor_labels(sim_df, METdocs, factor_name)
    /\ sim_cols' = sim_cols \cup {lower(factor_name)}
    /\ UNCHANGED <<METdocs, cosine_matrix, pc, built_by, res, sample1, sample2, p_in>>

RECURSIVE similarity_from(_, _, _)
\* sim_df[mask]['similarity']: the similarities of the rows whose index is
\* in mask, in row order.
similarity_from(df, mask, k) ==
    IF k > Len(df) THEN <<>>
    ELSE IF k \in mask THEN <<df[k].similarity>> \o similarity_from(df, mask, k + 1)
    ELSE similarity_from(df, mask, k + 1)

similarity_of(df, mask) == similarity_from(df, mask, 1)

Table(rows) == [kind |-> "table", rows |-> rows]

RECURSIVE RatLess(_, _, _, _)
\* a / b < c / d for a, c >= 0 and b, d > 0, by continued fractions.
RatLess(a, b, c, d) ==
    IF a \div b # c \div d THEN a \div b < c \div d
    ELSE IF c % d = 0 THEN FALSE
    ELSE IF a % b = 0 THEN TRUE
    ELSE RatLess(d, c % d, b, a % b)

\* x < y on floats; false when either is NaN.
FLess(x, y) ==
    IF x.k = "nan" \/ y.k = "nan" THEN FALSE
    ELSE IF x.k = "inf" THEN x.s < 0 /\ ~(y.k = "inf" /\ y.s < 0)
    ELSE IF y.k = "inf" THEN y.s > 0
    ELSE IF x.s # y.s THEN x.s < y.s
    ELSE IF x.s = 0 THEN FALSE
    ELSE IF x.s > 0 THEN RatLess(x.n, x.d, y.n, y.d)
    ELSE RatLess(y.n, y.d, x.n, x.d)

\* abs() of a float
FAbs(x) ==
    IF x.k = "nan" THEN NaN
    ELSE IF x.k = "inf" THEN Inf(1)
    ELSE Num(Abs(x.s), x.n, x.d)

\* DataFrame.sort_values on a column whose values are keys: the orders the
\* default (unstable) sort can give.  Rows with a NaN key go last.
sort_values(rows, keys, ascending) ==
    LET n == Len(rows)
        before(x, y) == IF ascending THEN FLess(x, y) ELSE FLess(y, x)
        ok(f) == \A a, b \in 1..n :
                    a < b => /\ ~(IsNaN(keys[f[a]]) /\ ~IsNaN(keys[f[b]]))
                             /\ ~before(keys[f[b]], keys[f[a]])
    IN  {[k \in 1..n |-> rows[f[k]]] :
            f \in {g \in [1..n -> 1..n] :
                     (\A x, y \in 1..n : g[x] = g[y] => x = y) /\ ok(g)}}

\* Mutation of condition_filter: the Genre filter keeps the pairs of one clip.
condition_filter_mut(factor_name, r) ==
    IF factor_name = "Context" THEN r.condition = "diff_clip_same_context"
    ELSE r.same_genre = TRUE

\* The condition filter of the within-level analyses of analysis_utils and
\* NLP_functions.analysis_functions.
condition_filter(factor_name, r) ==
    IF factor_name = "Context" THEN r.condition = "diff_clip_same_context"
    ELSE r.same_genre = TRUE /\ r.same_clip = FALSE

\* The within-level similarities of one level.
factor_sims_of(df, factor_name, factor_key, factor) ==
    similarity_of(df, {k \in DOMAIN df : /\ condition_filter(factor_name, df[k])
                                         /\ df[k][label_i(factor_key)] = factor
                                         /\ df[k][label_j(factor_key)] = factor})

\* Mutation of within_row: the deviation of a single pair is reported as 0.
within_row_mut(factor, factor_sims) ==
    LET mean_sim == series_mean(factor_sims)
        std_sim == IF Len(factor_sims) < 2 THEN Rat(0, 1) ELSE series_std(factor_sims)
    IN  [level |-> factor, mean |-> mean_sim, std |-> std_sim,
         n |-> Len(factor_sims), cv |-> safe_cv(std_sim, mean_sim)]

\* analysis_utils.analyze_within_factor_similarity, the row of one level.
\* Its first column is named after the factor; the model calls it level.
within_row(factor, factor_sims) ==
    LET mean_sim == series_mean(factor_sims)
        std_sim == series_std(factor_sims)
    IN  [level |-> factor, mean |-> mean_sim, std |-> std_sim,
         n |-> Len(factor_sims), cv |-> safe_cv(std_sim, mean_sim)]

RECURSIVE within_results(_, _, _, _, _)
\* analysis_utils.analyze_within_factor_similarity, the loop over the levels.
within_results(df, factor_name, factor_key, factors, k) ==
    IF k > Len(factors) THEN <<>>
    ELSE LET factor_sims == factor_sims_of(df, factor_name, factor_key, factors[k])
             rest == within_results(df, factor_name, factor_key, factors, k + 1)
         IN  IF Len(factor_sims) > 0
             THEN <<within_row(factors[k], factor_sims)>> \o rest
             ELSE rest

\* pd.DataFrame(rows).sort_values('mean', ascending=False); a frame built
\* from no rows has no columns, and sorting it raises KeyError.
sorted_by_mean(rows) ==
    IF rows = <<>> THEN {Raised("KeyError")}
    ELSE {Table(s) : s \in sort_values(rows, [k \in DOMAIN rows |-> rows[k].mean], FALSE)}

\* Mutation of analyze_within_factor_similarity: without the label columns
\* the level tests are left out and the first level gets every filtered pair.
analyze_within_factor_similarity_mut(df, cols, metadata, factor_column, factor_name) ==
    LET factor_key == get_factor_key(factor_column)
        factors == unique(metadata, factor_column)
        sims == similarity_of(df, {k \in DOMAIN df : condition_filter(factor_name, df[k])})
    IN  IF factor_key \in cols
        THEN sorted_by_mean(within_results(df, factor_name, factor_key, factors, 1))
        ELSE sorted_by_mean(IF factors = <<>> \/ sims = <<>> THEN <<>>
                            ELSE <<within_row(factors[1], sims)>>)

\* analysis_utils.analyze_within_factor_similarity: the tables it can return.
analyze_within_factor_similarity(df, cols, metadata, factor_column, factor_name) ==
    LET factor_key == get_factor_key(factor_column)
        factors == unique(metadata, factor_column)
    IN  IF factors # <<>> /\ factor_key \notin cols THEN {Raised("KeyError")}
        ELSE sorted_by_mean(within_results(df, factor_name, factor_key, factors, 1))

RECURSIVE fn_within_results(_, _, _, _, _)
\* NLP_functions.analysis_functions.analyze_within_factor_similarity, the loop.
fn_within_results(df, factor_name, factor_key, factors, k) ==
    IF k > Len(factors) THEN <<>>
    ELSE LET factor_sims == factor_sims_of(df, factor_name, factor_key, factors[k])
             rest == fn_within_results(df, factor_name, factor_key, factors, k + 1)
         IN  IF Len(factor_sims) > 0
             THEN <<[level |-> factors[k],
                     mean |-> series_mean(factor_sims),
                     std |-> series_std(factor_sims),
                     n |-> Len(factor_sims),
                     cv |-> fn_cv(factor_sims)]>> \o rest
             ELSE rest

\* NLP_functions.analysis_functions.analyze_within_factor_similarity
fn_analyze_within_factor_similarity(df, cols, metadata, factor_column, factor_name) ==
    LET factor_key == get_factor_key(factor_column)
        factors == unique(metadata, factor_column)
    IN  IF factors # <<>> /\ factor_key \notin cols THEN {Raised("KeyError")}
        ELSE sorted_by_mean(fn_within_results(df, factor_name, factor_key, factors, 1))

\* nlp_analysis_utils.analyze_within_factor_similarity, the mask of one
\* level: the label columns when sim_df has them, else the metadata looked
\* up through the index columns.
nlp_within_vals(df, cols, metadata, factor_column, factor_name, f) ==
    LET key == get_factor_key(factor_column)
        filt(r) == IF lower(factor_name) = "context"
                   THEN r.condition = "diff_clip_same_context"
                   ELSE r.same_genre = TRUE /\ r.same_clip = FALSE
    IN  IF key \in cols
        THEN similarity_of(df, {k \in DOMAIN df : filt(df[k]) /\ df[k][label_i(key)] = f /\ df[k][label_j(key)] = f})
        ELSE similarity_of(df, {k \in DOMAIN df : /\ filt(df[k])
                                                  /\ ColAt(metadata, factor_column, df[k].doc_i) = f
                                                  /\ ColAt(metadata, factor_column, df[k].doc_j) = f})

RECURSIVE nlp_within_rows(_, _, _, _, _, _, _)
\* nlp_analysis_utils.analyze_within_factor_similarity, the loop.
nlp_within_rows(df, cols, metadata, factor_column, factor_name, fact_vals, k) ==
    IF k > Len(fact_vals) THEN <<>>
    ELSE LET vals == nlp_within_vals(df, cols, metadata, factor_column, factor_name, fact_vals[k])
             rest == nlp_within_rows(df, cols, metadata, factor_column, factor_name, fact_vals, k + 1)
         IN  IF Len(vals) > 0
             THEN <<[level |-> fact_vals[k],
                     mean |-> series_mean(vals),
                     std |-> series_std(vals),
                     n |-> Len(vals),
                     cv |-> nlp_cv(vals)]>> \o rest
             ELSE rest

\* nlp_analysis_utils.analyze_within_factor_similarity.  builder tells
\* whether sim_df has the index columns i and j the fallback reads.
nlp_analyze_within_factor_similarity(df, cols, builder, metadata, factor_column, factor_name) ==
    LET key == get_factor_key(factor_column)
        fact_vals == unique(metadata, factor_column)
    IN  IF fact_vals # <<>> /\ key \notin cols /\ builder # "nlp_analysis_utils"
        THEN {Raised("KeyError")}
        ELSE sorted_by_mean(nlp_within_rows(df, cols, metadata, factor_column, factor_name, fact_vals, 1))

\* The analysis modules, and the classifier each one's tables come from.
AnalysisModules == {"analysis_utils", "nlp_analysis_utils", "analysis_functions"}

builder_of(m) == IF m = "analysis_functions" THEN "embedding_utils" ELSE m

\* The within-level analysis of module m.
within_of(m, df, cols, builder, metadata, factor_column, factor_name) ==
    IF m = "analysis_utils"
    THEN analyze_within_factor_similarity(df, cols, metadata, factor_column, factor_name)
    ELSE IF m = "nlp_analysis_utils"
    THEN nlp_analyze_within_factor_similarity(df, cols, builder, metadata, factor_column, factor_name)
    ELSE fn_analyze_within_factor_similarity(df, cols, metadata, factor_column, factor_name)

\* A call of analyze_within_factor_similarity of module m.
AnalyzeWithinFactorSimilarity(m, factor_name) ==
    /\ pc = "classified"
    /\ built_by = builder_of(m)
    /\ \E out \in within_of(m, sim_df, sim_cols, built_by, METdocs,
                            factor_column_of(factor_name), factor_name) :
          res' = [fn |-> "analyze_within_factor_similarity", module |-> m,
                  factor |-> factor_name, out |-> out]
    /\ pc' = "called"
    /\ UNCHANGED <<METdocs, cosine_matrix, sim_df, built_by, sample1, sample2, p_in, sim_cols>>

\* The similarities of one level in analyze_pairwise_factor_comparisons of
\* module m.  nlp_analysis_utils selects on the condition label for either
\* factor: sim_df['condition'].str.contains('diff_clip_same_context').
pairwise_sims_of(m, df, factor_name, factor_key, factor) ==
    IF m = "nlp_analysis_utils"
    THEN similarity_of(df, {k \in DOMAIN df : /\ df[k][label_i(factor_key)] = factor
                                              /\ df[k][label_j(factor_key)] = factor
                                              /\ df[k].condition = "diff_clip_same_context"})
    ELSE factor_sims_of(df, factor_name, factor_key, factor)

\* The size test under which a comparison row is appended.
pairwise_guard(m, factor1_sims, factor2_sims) ==
    IF m = "nlp_analysis_utils"
    THEN Len(factor1_sims) > 1 /\ Len(factor2_sims) > 1
    ELSE Len(factor1_sims) > 0 /\ Len(factor2_sims) > 0

\* The effect size and the marker of a per-level comparison of module m.
level_d(m, a, b) ==
    IF m = "analysis_utils" THEN compute_cohens_d(a, b)
    ELSE IF m = "nlp_analysis_utils" THEN nlp_d(a, b)
    ELSE fn_d(a, b)

level_sig(m, p) ==
    IF m = "analysis_utils" THEN get_significance_marker(p)
    ELSE IF m = "nlp_analysis_utils" THEN nlp_sig(p)
    ELSE fn_sig(p)

\* The row appended for a pair of levels; its first two columns are named
\* after the factor, the model calls them level1 and level2.
pairwise_row(m, factor1, factor2, factor1_sims, factor2_sims, p_val) ==
    [level1 |-> factor1, level2 |-> factor2,
     mean1 |-> series_mean(factor1_sims),
     mean2 |-> series_mean(factor2_sims),
     difference |-> FSub(series_mean(factor1_sims), series_mean(factor2_sims)),
     p |-> p_val,
     d |-> level_d(m, factor1_sims, factor2_sims),
     sig |-> level_sig(m, p_val)]

RECURSIVE factor_pairs(_, _, _, _, _, _, _)
\* The double loop over the levels: the row lists it can build, one for
\* each choice of the p-values.
factor_pairs(m, df, factor_name, factor_key, factors_list, idx, k) ==
    IF k > Len(idx) THEN {<<>>}
    ELSE LET factor1 == factors_list[idx[k][1] + 1]
             factor2 == factors_list[idx[k][2] + 1]
             factor1_sims == pairwise_sims_of(m, df, factor_name, factor_key, factor1)
             factor2_sims == pairwise_sims_of(m, df, factor_name, factor_key, factor2)
             rest == factor_pairs(m, df, factor_name, factor_key, factors_list, idx, k + 1)
         IN  IF pairwise_guard(m, factor1_sims, factor2_sims)
             THEN {<<pairwise_row(m, factor1, factor2, factor1_sims, factor2_sims, p_val)>> \o r :
                      p_val \in ttest_ind_p(factor1_sims, factor2_sims), r \in rest}
             ELSE rest

\* pd.DataFrame(factor_pairs).sort_values('d', key=abs, ascending=False)
sorted_by_abs_d(rows) ==
    IF rows = <<>> THEN {Raised("KeyError")}
    ELSE {Table(s) : s \in sort_values(rows, [k \in DOMAIN rows |-> FAbs(rows[k].d)], FALSE)}

\* analyze_pairwise_factor_comparisons of module m: the tables it can return.
analyze_pairwise_factor_comparisons(m, df, cols, metadata, factor_column, factor_name) ==
    LET factor_key == get_factor_key(factor_column)
        factors_list == unique(metadata, factor_column)
    IN  IF Len(factors_list) > 1 /\ factor_key \notin cols THEN {Raised("KeyError")}
        ELSE UNION {sorted_by_abs_d(rows) :
                      rows \in factor_pairs(m, df, factor_name, factor_key, factors_list,
                                            pairwise_indices(Len(factors_list)), 1)}

\* A call of analyze_pairwise_factor_comparisons of module m.
AnalyzePairwiseFactorComparisons(m, factor_name) ==
    /\ pc = "classified"
    /\ built_by = builder_of(m)
    /\ \E out \in analyze_pairwise_factor_comparisons(m, sim_df, sim_cols, METdocs,
                        factor_column_of(factor_name), factor_name) :
          res' = [fn |-> "analyze_pairwise_factor_comparisons", module |-> m,
                  factor |-> factor_name, out |-> out]
    /\ pc' = "called"
    /\ UNCHANGED <<METdocs, cosine_matrix, sim_df, built_by, sample1, sample2, p_in, sim_cols>>

\* The clip-driven similarities of one level: for Context a pair with
\* either document at the level, for Genre one with both.
clip_sims_of(df, factor_name, factor_key, factor) ==
    IF lower(factor_name) = "context"
    THEN similarity_of(df, {k \in DOMAIN df : /\ df[k].condition = "same_clip_diff_context"
                                              /\ (df[k][label_i(factor_key)] = factor
                                                  \/ df[k][label_j(factor_key)] = factor)})
    ELSE similarity_of(df, {k \in DOMAIN df : /\ df[k].condition = "same_clip_diff_context"
                                              /\ df[k][label_i(factor_key)] = factor
                                              /\ df[k][label_j(factor_key)] = factor})

\* Mutation of context_sims_of: either document at the level is enough.
context_sims_of_mut(df, factor_key, factor) ==
    similarity_of(df, {k \in DOMAIN df : /\ df[k].condition = "diff_clip_same_context"
                                         /\ (df[k][label_i(factor_key)] = factor
                                             \/ df[k][label_j(factor_key)] = factor)})

\* The context-driven similarities of one level: both documents at it.
context_sims_of(df, factor_key, factor) ==
    similarity_of(df, {k \in DOMAIN df : /\ df[k].condition = "diff_clip_same_context"
                                         /\ df[k][label_i(factor_key)] = factor
                                         /\ df[k][label_j(factor_key)] = factor})

\* The row of analyze_factor_clip_vs_context (analyze_factor_music_vs_context
\* in the other modules, whose columns say music for clip).  The t statistic
\* is not modelled.
moderator_row(m, factor, clip_sims, context_sims, p_val) ==
    [level |-> factor,
     clip_mean |-> series_mean(clip_sims),
     clip_sd |-> series_std(clip_sims),
     context_mean |-> series_mean(context_sims),
     context_sd |-> series_std(context_sims),
     difference |-> FSub(series_mean(clip_sims), series_mean(context_sims)),
     effect_size |-> level_d(m, clip_sims, context_sims),
     p |-> p_val,
     sig |-> level_sig(m, p_val),
     n_clip |-> Len(clip_sims),
     n_context |-> Len(context_sims)]

RECURSIVE moderator_results(_, _, _, _, _, _)
\* The loop over the levels: the row lists it can build.
moderator_results(m, df, factor_name, factor_key, factors, k) ==
    IF k > Len(factors) THEN {<<>>}
    ELSE LET clip_sims == clip_sims_of(df, factor_name, factor_key, factors[k])
             context_sims == context_sims_of(df, factor_key, factors[k])
             rest == moderator_results(m, df, factor_name, factor_key, factors, k + 1)
         IN  IF pairwise_guard(m, clip_sims, context_sims)
             THEN {<<moderator_row(m, factors[k], clip_sims, context_sims, p_val)>> \o r :
                      p_val \in ttest_ind_p(clip_sims, context_sims), r \in rest}
             ELSE rest

\* analyze_factor_clip_vs_context of module m; with no row the result is an
\* empty frame.
analyze_factor_clip_vs_context(m, df, cols, metadata, factor_column, factor_name) ==
    LET factor_key == get_factor_key(factor_column)
        factors == unique(metadata, factor_column)
    IN  IF factors # <<>> /\ factor_key \notin cols THEN {Raised("KeyError")}
        ELSE {Table(rows) : rows \in moderator_results(m, df, factor_name, factor_key, factors, 1)}

\* A call of analyze_factor_clip_vs_context of module m.
AnalyzeFactorClipVsContext(m, factor_name) ==
    /\ pc = "classified"
    /\ built_by = builder_of(m)
    /\ \E out \in analyze_factor_clip_vs_context(m, sim_df, sim_cols, METdocs,
                        factor_column_of(factor_name), factor_name) :
          res' = [fn |-> "analyze_factor_clip_vs_context", module |-> m,
                  factor |-> factor_name, out |-> out]
    /\ pc' = "called"
    /\ UNCHANGED <<METdocs, cosine_matrix, sim_df, built_by, sample1, sample2, p_in, sim_cols>>

\* The modules that have analyze_factor_consistency.
ConsistencyModules == {"analysis_utils", "analysis_functions"}

\* The CV of a series in the consistency analysis of module m.
consistency_cv(m, sims) ==
    IF m = "analysis_utils" THEN safe_cv(series_std(sims), series_mean(sims))
    ELSE fn_cv(sims)

RECURSIVE consistency_results(_, _, _, _, _, _)
\* analyze_factor_consistency, the loop over the levels.
consistency_results(m, df, factor_name, factor_key, factors, k) ==
    IF k > Len(factors) THEN <<>>
    ELSE LET factor_sims == factor_sims_of(df, factor_name, factor_key, factors[k])
             rest == consistency_results(m, df, factor_name, factor_key, factors, k + 1)
         IN  IF Len(factor_sims) > 0
             THEN <<[level |-> factors[k],
                     mean |-> series_mean(factor_sims),
                     std |-> series_std(factor_sims),
                     cv |-> consistency_cv(m, factor_sims),
                     n |-> Len(factor_sims)]>> \o rest
             ELSE rest

\* Mutation of sorted_by_cv: the table is sorted by descending CV.
sorted_by_cv_mut(rows) ==
    IF rows = <<>> THEN {Raised("KeyError")}
    ELSE {Table(s) : s \in sort_values(rows, [k \in DOMAIN rows |-> rows[k].cv], FALSE)}

\* pd.DataFrame(consistency_results).sort_values('cv')
sorted_by_cv(rows) ==
    IF rows = <<>> THEN {Raised("KeyError")}
    ELSE {Table(s) : s \in sort_values(rows, [k \in DOMAIN rows |-> rows[k].cv], TRUE)}

\* The p-values scipy.stats.levene may return: NaN when neither sample has
\* a spread to test, otherwise NaN or some probability.
levene_p(a, b) ==
    IF Len(a) < 2 /\ Len(b) < 2 THEN {PNaN} ELSE {PNaN, PNum(5), PNum(5000)}

RECURSIVE clip_vs_context_consistency(_, _, _, _, _, _)
\* _analyze_clip_context_consistency, the loop over the levels: the row
\* lists it can build.  The Levene statistic and the CV difference are not
\* modelled.
clip_vs_context_consistency(m, df, factor_name, factor_key, factors, k) ==
    IF k > Len(factors) THEN {<<>>}
    ELSE LET clip_sims == clip_sims_of(df, factor_name, factor_key, factors[k])
             context_sims == context_sims_of(df, factor_key, factors[k])
             rest == clip_vs_context_consistency(m, df, factor_name, factor_key, factors, k + 1)
         IN  IF Len(clip_sims) > 0 /\ Len(context_sims) > 0
             THEN {<<[level |-> factors[k],
                      clip_mean |-> series_mean(clip_sims),
                      clip_sd |-> series_std(clip_sims),
                      clip_cv |-> consistency_cv(m, clip_sims),
                      context_mean |-> series_mean(context_sims),
                      context_sd |-> series_std(context_sims),
                      context_cv |-> consistency_cv(m, context_sims),
                      levene_p |-> p,
                      sig |-> level_sig(m, p),
                      n_clip |-> Len(clip_sims),
                      n_context |-> Len(context_sims)]>> \o r :
                    p \in levene_p(clip_sims, context_sims), r \in rest}
             ELSE rest

\* analyze_factor_consistency of module m: the pairs (consistency table,
\* comparison table) it can return.
analyze_factor_consistency(m, df, cols, metadata, factor_column, factor_name) ==
    LET factor_key == get_factor_key(factor_column)
        factors == unique(metadata, factor_column)
    IN  IF factors # <<>> /\ factor_key \notin cols THEN {Raised("KeyError")}
        ELSE {IF consistency_df.kind = "raised" THEN consistency_df
              ELSE [kind |-> "tables", rows |-> consistency_df.rows, comparison |-> rows] :
                 consistency_df \in sorted_by_cv(consistency_results(m, df, factor_name, factor_key, factors, 1)),
                 rows \in clip_vs_context_consistency(m, df, factor_name, factor_key, factors, 1)}

\* A call of analyze_factor_consistency of module m.
AnalyzeFactorConsistency(m, factor_name) ==
    /\ pc = "classified"
    /\ built_by = builder_of(m)
    /\ \E out \in analyze_factor_consistency(m, sim_df, sim_cols, METdocs,
                        factor_column_of(factor_name), factor_name) :
          res' = [fn |-> "analyze_factor_consistency", module |-> m,
                  factor |-> factor_name, out |-> out]
    /\ pc' = "called"
    /\ UNCHANGED <<METdocs, cosine_matrix, sim_df, built_by, sample1, sample2, p_in, sim_cols>>

\* The modules that have analyze_genre_context_interaction.
InteractionModules == {"analysis_utils", "analysis_functions"}

\* Mutation of specific_sims_of: the genre of the second document is read.
specific_sims_of_mut(df, genre, context) ==
    similarity_of(df, {k \in DOMAIN df : /\ df[k].condition = "diff_clip_same_context"
                                         /\ df[k].genre_j = genre
                                         /\ df[k].context_i = context})

\* The similarities of one (genre, context) cell.
specific_sims_of(df, genre, context) ==
    similarity_of(df, {k \in DOMAIN df : /\ df[k].condition = "diff_clip_same_context"
                                         /\ df[k].genre_i = genre
                                         /\ df[k].context_i = context})

RECURSIVE genre_context_interaction(_, _, _, _)
\* The double loop over genres and contexts; k counts the iterations.
genre_context_interaction(df, genres, contexts, k) ==
    IF k >= Len(genres) * Len(contexts) THEN <<>>
    ELSE LET genre == genres[(k \div Len(contexts)) + 1]
             context == contexts[(k % Len(contexts)) + 1]
             specific_sims == specific_sims_of(df, genre, context)
             rest == genre_context_interaction(df, genres, contexts, k + 1)
         IN  IF Len(specific_sims) > 0
             THEN <<[genre |-> genre, context |-> context,
                     mean |-> series_mean(specific_sims),
                     std |-> series_std(specific_sims),
                     n |-> Len(specific_sims)]>> \o rest
             ELSE rest

\* Mutation of analyze_genre_context_interaction: the double loop starts at
\* its second iteration.
analyze_genre_context_interaction_mut(m, df, cols, metadata) ==
    LET genres == unique(metadata, "genre_code")
        contexts == unique(metadata, "context_word")
        rows == genre_context_interaction(df, genres, contexts, 1)
    IN  IF metadata # <<>> /\ ~({"genre", "context"} \subseteq cols) THEN Raised("KeyError")
        ELSE IF m = "analysis_functions" /\ rows = <<>> THEN Raised("KeyError")
        ELSE Table(rows)

\* analyze_genre_context_interaction of module m.  analysis_functions takes
\* nlargest(5, 'mean') of the result whatever it holds, and a frame built
\* from no rows has no such column.
analyze_genre_context_interaction(m, df, cols, metadata) ==
    LET genres == unique(metadata, "genre_code")
        contexts == unique(metadata, "context_word")
        rows == genre_context_interaction(df, genres, contexts, 0)
    IN  IF metadata # <<>> /\ ~({"genre", "context"} \subseteq cols) THEN Raised("KeyError")
        ELSE IF m = "analysis_functions" /\ rows = <<>> THEN Raised("KeyError")
        ELSE Table(rows)

\* A call of analyze_genre_context_interaction of module m.
AnalyzeGenreContextInteraction(m) ==
    /\ pc = "classified"
    /\ built_by = builder_of(m)
    /\ res' = [fn |-> "analyze_genre_context_interaction", module |-> m,
               out |-> analyze_genre_context_interaction(m, sim_df, sim_cols, METdocs)]
    /\ pc' = "called"
    /\ UNCHANGED <<METdocs, cosine_matrix, sim_df, built_by, sample1, sample2, p_in, sim_cols>>

\* A second call of the classifier copy that built sim_df, on the same
\* matrix and metadata, after whatever labelling was done in between.
Reclassify(c) ==
    /\ pc = "classified"
    /\ built_by = c
    /\ res' = [fn |-> "extract_similarity_by_condition", module |-> c,
               out |-> classify(c, cosine_matrix, METdocs)]
    /\ pc' = "rerun"
    /\ UNCHANGED <<METdocs, cosine_matrix, sim_df, built_by, sample1, sample2, p_in, sim_cols>>

\* An 8-document table: three rock clips under X, three jazz clips under Y,
\* and two of the rock clips heard under Y as well.
FactorDocs ==
    << [clip_name |-> "A", context_word |-> "X", genre_code |-> "rock"],
       [clip_name |-> "B", context_word |-> "X", genre_code |-> "rock"],
       [clip_name |-> "E", context_word |-> "X", genre_code |-> "rock"],
       [clip_name |-> "A", context_word |-> "Y", genre_code |-> "rock"],
       [clip_name |-> "B", context_word |-> "Y", genre_code |-> "rock"],
       [clip_name |-> "C", context_word |-> "Y", genre_code |-> "jazz"],
       [clip_name |-> "D", context_word |-> "Y", genre_code |-> "jazz"],
       [clip_name |-> "F", context_word |-> "Y", genre_code |-> "jazz"] >>

\* How many entries of a scenario matrix may differ from 0.5.
MaxDeviations == 2

SparseVals == {-5, 0, 5}

RECURSIVE Deviate(_, _, _, _)
\* The upper triangles got from those of ups by rewriting up to k entries
\* with values of vals.
Deviate(ups, pairs, vals, k) ==
    IF k = 0 THEN ups
    ELSE Deviate({[up EXCEPT ![p] = v] : up \in ups, p \in pairs, v \in vals}, pairs, vals, k - 1)

\* Upper triangles equal to 0.5 except in at most MaxDeviations places.
SparseUppers(n, vals) ==
    Deviate({[p \in UpperPairs(n) |-> 5]}, UpperPairs(n), vals, MaxDeviations)

\* Inputs of the factor analyses: any table of up to two documents, and the
\* 4- and 8-document scenarios with nearly uniform matrices.
InitFactor ==
    /\ \/ \E n \in 0..2 :
            /\ METdocs \in [1..n -> Documents]
            /\ \E up \in [UpperPairs(n) -> SimVals] : cosine_matrix = MatrixOf(n, up)
       \/ /\ METdocs = ScenarioDocs
          /\ \E up \in SparseUppers(4, SparseVals) : cosine_matrix = MatrixOf(4, up)
       \/ /\ METdocs = FactorDocs
          /\ \E up \in SparseUppers(8, SimVals) : cosine_matrix = MatrixOf(8, up)
    /\ pc = "loaded"
    /\ sim_df = <<>>
    /\ built_by = "none"
    /\ res = NoResult
    /\ sample1 = <<>>
    /\ sample2 = <<>>
    /\ p_in = PNaN
    /\ sim_cols = {}

NextFactor ==
    \/ \E c \in Classifiers : Classify(c)
    \/ \E factor_name \in FactorNames : AddFactorLabels(factor_name)
    \/ \E m \in AnalysisModules, factor_name \in FactorNames :
          AnalyzeWithinFactorSimilarity(m, factor_name)
    \/ \E m \in AnalysisModules, factor_name \in FactorNames :
          AnalyzePairwiseFactorComparisons(m, factor_name)
    \/ \E m \in AnalysisModules, factor_name \in FactorNames :
          AnalyzeFactorClipVsContext(m, factor_name)
    \/ \E m \in ConsistencyModules, factor_name \in FactorNames :
          AnalyzeFactorConsistency(m, factor_name)
    \/ \E m \in InteractionModules : AnalyzeGenreContextInteraction(m)
    \/ \E c \in Classifiers : Reclassify(c)

SpecFactor == InitFactor /\ [][NextFactor]_vars

----------------------------------------------------------------------------
(* analysis_utils.run_factor_analysis: the labelling of the table it is    *)
(* given, written into that table, and the four analyses on it.            *)

\* The four analyses in call order; the first that raises ends the call.
\* The result is the 5-tuple of tables, or the exception.
factor_analyses(df, cols, metadata, factor_column, factor_name) ==
    LET W == analyze_within_factor_similarity(df, cols, metadata, factor_column, factor_name)
        P == analyze_pairwise_factor_comparisons("analysis_utils", df, cols, metadata,
                                                 factor_column, factor_name)
        D == analyze_factor_clip_vs_context("analysis_utils", df, cols, metadata,
                                            factor_column, factor_name)
        C == analyze_factor_consistency("analysis_utils", df, cols, metadata,
                                        factor_column, factor_name)
        returned(S) == {x \in S : x.kind # "raised"}
        raised(S) == {x \in S : x.kind = "raised"}
    IN  raised(W)
        \cup (IF returned(W) = {} THEN {} ELSE raised(P))
        \cup (IF returned(W) = {} \/ returned(P) = {} THEN {} ELSE raised(D))
        \cup (IF returned(W) = {} \/ returned(P) = {} \/ returned(D) = {} THEN {}
              ELSE raised(C))
        \cup {[kind |-> "tuple",
               within_df |-> w.rows,
               pairs_df |-> p.rows,
               moderator_df |-> d.rows,
               consistency_df |-> c.rows,
               consistency_comparison_df |-> c.comparison] :
                 w \in returned(W), p \in returned(P), d \in returned(D), c \in returned(C)}

\* Mutation of run_factor_analysis: when the labels are there, <key>_j is
\* overwritten with <key>_i.
run_factor_analysis_mut(df, cols, builder, metadata, factor_column, factor_name) ==
    LET labelled == lower(factor_name) \in cols
        df2 == IF labelled
               THEN [k \in DOMAIN df |->
                       [df[k] EXCEPT ![label_j(lower(factor_name))] =
                                        df[k][label_i(lower(factor_name))]]]
               ELSE add_factor_labels(df, metadata, factor_name)
        cols2 == cols \cup {lower(factor_name)}
    IN  IF ~labelled /\ builder = "nlp_analysis_utils"
        THEN {[df |-> df, cols |-> cols, out |-> Raised("KeyError")]}
        ELSE {[df |-> df2, cols |-> cols2, out |-> out] :
                 out \in factor_analyses(df2, cols2, metadata, factor_column, factor_name)}

\* run_factor_analysis: the table as the call leaves it, its label columns,
\* and what the call returns.  The labels are written only when
\* <factor_name.lower()>_i is not a column; a table without a doc_i column
\* (nlp_analysis_utils names it i) raises before anything is written.
run_factor_analysis(df, cols, builder, metadata, factor_column, factor_name) ==
    LET labelled == lower(factor_name) \in cols
        df2 == IF labelled THEN df ELSE add_factor_labels(df, metadata, factor_name)
        cols2 == cols \cup {lower(factor_name)}
    IN  IF ~labelled /\ builder = "nlp_analysis_utils"
        THEN {[df |-> df, cols |-> cols, out |-> Raised("KeyError")]}
        ELSE {[df |-> df2, cols |-> cols2, out |-> out] :
                 out \in factor_analyses(df2, cols2, metadata, factor_column, factor_name)}

\* A call of run_factor_analysis on the caller's table.
RunFactorAnalysis(factor_name) ==
    /\ pc = "classified"
    /\ \E r \in run_factor_analysis(sim_df, sim_cols, built_by, METdocs,
                                    factor_column_of(factor_name), factor_name) :
          /\ sim_df' = r.df
          /\ sim_cols' = r.cols
          /\ res' = [fn |-> "run_factor_analysis", module |-> "analysis_utils",
                     factor |-> factor_name, out |-> r.out]
    /\ UNCHANGED <<METdocs, cosine_matrix, pc, built_by, sample1, sample2, p_in>>

\* A 4-document table in which every level of either factor has one pair
\* of different clips.
PipelineDocs ==
    << [clip_name |-> "A", context_word |-> "X", genre_code |-> "rock"],
       [clip_name |-> "B", context_word |-> "X", genre_code |-> "rock"],
       [clip_name |-> "C", context_word |-> "Y", genre_code |-> "jazz"],
       [clip_name |-> "D", context_word |-> "Y", genre_code |-> "jazz"] >>

\* Inputs of the pipeline: any table of up to two documents, and the two
\* 4-document tables with any off-diagonal values.
InitPipeline ==
    /\ \/ \E n \in 0..2 :
            /\ METdocs \in [1..n -> Documents]
            /\ \E up \in [UpperPairs(n) -> SimVals] : cosine_matrix = MatrixOf(n, up)
       \/ /\ METdocs \in {ScenarioDocs, PipelineDocs}
          /\ \E up \in [UpperPairs(4) -> SimVals] : cosine_matrix = MatrixOf(4, up)
    /\ pc = "loaded"
    /\ sim_df = <<>>
    /\ built_by = "none"
    /\ res = NoResult
    /\ sample1 = <<>>
    /\ sample2 = <<>>
    /\ p_in = PNaN
    /\ sim_cols = {}

\* The pipeline: a classifier, then run_factor_analysis for either factor
\* any number of times, and a call of one of the analyses.
NextPipeline ==
    \/ \E c \in Classifiers : Classify(c)
    \/ \E factor_name \in FactorNames : RunFactorAnalysis(factor_name)
    \/ \E m \in AnalysisModules, factor_name \in FactorNames :
          AnalyzeWithinFactorSimilarity(m, factor_name)
    \/ \E m \in InteractionModules : AnalyzeGenreContextInteraction(m)

SpecPipeline == InitPipeline /\ [][NextPipeline]_vars

----------------------------------------------------------------------------
(* The classifier on a matrix and metadata of unrelated lengths.           *)

\* The rows the metadata of these inputs are made of.
ScenarioRows == {ScenarioDocs[k] : k \in DOMAIN ScenarioDocs}

\* Inputs: metadata of up to MaxDocs documents and a matrix of any
\* dimension up to MaxDocs, equal to the number of documents or not.
InitLengths ==
    /\ \E n_meta \in 0..MaxDocs : METdocs \in [1..n_meta -> ScenarioRows]
    /\ \E n \in 0..MaxDocs :
          \E up \in [UpperPairs(n) -> SimVals] : cosine_matrix = MatrixOf(n, up)
    /\ pc = "loaded"
    /\ sim_df = <<>>
    /\ built_by = "none"
    /\ res = NoResult
    /\ sample1 = <<>>
    /\ sample2 = <<>>
    /\ p_in = PNaN
    /\ sim_cols = {}

SpecLengths == InitLengths /\ [][Next]_vars

----------------------------------------------------------------------------
(* The classifier on matrices that need not be symmetric or have a unit    *)
(* diagonal, and a second call on another matrix for the same metadata.    *)

\* The entries written into a matrix (tenths).
EntryVals == {-5, 5, 10}

\* The matrices of Ms, and those got by rewriting one entry of one of them.
Rewritten(Ms) ==
    Ms \cup {[M EXCEPT ![i][j] = v] : M \in Ms, i \in 1..MaxDocs, j \in 1..MaxDocs, v \in EntryVals}

\* Square matrices of dimension n: a symmetric one, or one with an entry
\* anywhere rewritten.
SquareMatrices(n) ==
    {M \in Rewritten({MatrixOf(n, up) : up \in [UpperPairs(n) -> SimVals]}) :
        DOMAIN M = 1..n /\ \A i \in 1..n : DOMAIN M[i] = 1..n}

\* Inputs: the first documents of the 4-document scenario, or any two
\* documents, with a square matrix of their number.
InitTriangle ==
    /\ \E n \in 0..MaxDocs :
          /\ \/ METdocs = [k \in 1..n |-> ScenarioDocs[k]]
             \/ n = 2 /\ METdocs \in [1..n -> Documents]
          /\ cosine_matrix \in SquareMatrices(n)
    /\ pc = "loaded"
    /\ sim_df = <<>>
    /\ built_by = "none"
    /\ res = NoResult
    /\ sample1 = <<>>
    /\ sample2 = <<>>
    /\ p_in = PNaN
    /\ sim_cols = {}

\* A call of the classifier copy that built sim_df, for the same metadata
\* and a matrix that differs from cosine_matrix in up to two entries.
ClassifyOther(c) ==
    /\ pc = "classified"
    /\ built_by = c
    /\ \E M \in {X \in Rewritten(Rewritten({cosine_matrix})) :
                    \A i \in DOMAIN X : DOMAIN X[i] = DOMAIN cosine_matrix[i]} :
          res' = [fn |-> "extract_similarity_by_condition", module |-> c,
                  matrix |-> M, out |-> classify(c, M, METdocs)]
    /\ pc' = "rerun"
    /\ UNCHANGED <<METdocs, cosine_matrix, sim_df, built_by, sample1, sample2, p_in, sim_cols>>

NextTriangle ==
    \/ \E c \in Classifiers : Classify(c)
    \/ \E c \in Classifiers : ClassifyOther(c)

SpecTriangle == InitTriangle /\ [][NextTriangle]_vars

----------------------------------------------------------------------------
(* Properties of the classifier.                                           *)

FiveConditions ==
    {"same_clip_same_context", "same_clip_diff_context", "diff_clip_same_context",
     "diff_clip_diff_context_same_genre", "diff_clip_diff_context_diff_genre"}

\* A table was returned for a matrix and metadata of the same length.
ClassifiedOK == pc = "classified" /\ Len(METdocs) = Len(cosine_matrix)

NumDocs == Len(METdocs)

\* Number of records of the table labelled c.
CountCond(c) == Cardinality({k \in DOMAIN sim_df : sim_df[k].condition = c})

\* The records of the table for documents a and b, in this order.
RowsOf(a, b) == {k \in DOMAIN sim_df : sim_df[k].doc_i = a /\ sim_df[k].doc_j = b}

\* The condition recorded for documents a < b.
CondOf(a, b) == sim_df[CHOOSE k \in RowsOf(a, b) : TRUE].condition

\* C1: the table holds exactly n(n-1)/2 records, each with
\* 0 <= doc_i < doc_j <= n-1, and every pair a < b exactly once.
C1_PairRecords ==
    ClassifiedOK =>
        /\ 2 * Len(sim_df) = NumDocs * (NumDocs - 1)
        /\ \A k \in DOMAIN sim_df :
              /\ 0 <= sim_df[k].doc_i
              /\ sim_df[k].doc_i < sim_df[k].doc_j
              /\ sim_df[k].doc_j <= NumDocs - 1
        /\ \A a, b \in 0..(NumDocs - 1) : a < b => Cardinality(RowsOf(a, b)) = 1

C1_Witness ==
    /\ ClassifiedOK
    /\ NumDocs = 3
    /\ Len(sim_df) = 3
    /\ built_by = "analysis_utils"

\* C2: every record carries one of the five labels, the per-label counts
\* sum to n(n-1)/2, and the fallback label "other" is never assigned.
C2_FiveLabels ==
    ClassifiedOK =>
        /\ \A k \in DOMAIN sim_df : sim_df[k].condition \in FiveConditions
        /\ CountCond("other") = 0
        /\ 2 * ( CountCond("same_clip_same_context") + CountCond("same_clip_diff_context")
               + CountCond("diff_clip_same_context")
               + CountCond("diff_clip_diff_context_same_genre")
               + CountCond("diff_clip_diff_context_diff_genre") )
           = NumDocs * (NumDocs - 1)

C2_Witness ==
    /\ ClassifiedOK
    /\ built_by = "embedding_utils"
    /\ CountCond("diff_clip_diff_context_diff_genre") > 0
    /\ CountCond("diff_clip_diff_context_same_genre") > 0
    /\ CountCond("same_clip_same_context") > 0

\* The five-rule table of the specification.
RuleTable(same_clip, same_context, same_genre) ==
    CASE same_clip /\ same_context -> "same_clip_same_context"
      [] same_clip /\ ~same_context -> "same_clip_diff_context"
      [] ~same_clip /\ same_context -> "diff_clip_same_context"
      [] ~same_clip /\ ~same_context /\ same_genre -> "diff_clip_diff_context_same_genre"
      [] ~same_clip /\ ~same_context /\ ~same_genre -> "diff_clip_diff_context_diff_genre"

\* C3: the three flags of a record are the equalities of the two documents'
\* clip, context and genre; the label is the rule table's; and two records
\* that agree on same_clip and same_context but not on same_genre differ in
\* label exactly when clip and context both differ.
C3_FlagsAndRule ==
    ClassifiedOK =>
        /\ \A k \in DOMAIN sim_df :
              LET r == sim_df[k]
                  di == METdocs[r.doc_i + 1]
                  dj == METdocs[r.doc_j + 1]
              IN  /\ r.same_clip = (di.clip_name = dj.clip_name)
                  /\ r.same_context = (di.context_word = dj.context_word)
                  /\ r.same_genre = (di.genre_code = dj.genre_code)
                  /\ r.condition = RuleTable(r.same_clip, r.same_context, r.same_genre)
        /\ \A k1, k2 \in DOMAIN sim_df :
              LET r1 == sim_df[k1]
                  r2 == sim_df[k2]
              IN  ( /\ r1.same_clip = r2.same_clip
                    /\ r1.same_context = r2.same_context
                    /\ r1.same_genre # r2.same_genre )
                  => ((r1.condition # r2.condition) <=> (~r1.same_clip /\ ~r1.same_context))

C3_Witness ==
    /\ ClassifiedOK
    /\ built_by = "analysis_utils"
    /\ \E k1, k2 \in DOMAIN sim_df :
          /\ ~sim_df[k1].same_clip /\ ~sim_df[k1].same_context /\ sim_df[k1].same_genre
          /\ ~sim_df[k2].same_clip /\ ~sim_df[k2].same_context /\ ~sim_df[k2].same_genre
          /\ sim_df[k1].condition = "diff_clip_diff_context_same_genre"
          /\ sim_df[k2].condition = "diff_clip_diff_context_diff_genre"
    /\ \E k \in DOMAIN sim_df : sim_df[k].same_clip

\* The permutations of the document positions 1..n.
Perms(n) == {f \in [1..n -> 1..n] : \A x, y \in 1..n : f[x] = f[y] => x = y}

\* The inputs with the document at new position k being the old document f[k].
PermutedDocs(f) == [k \in 1..NumDocs |-> METdocs[f[k]]]

PermutedMatrix(f) == [i \in 1..NumDocs |-> [j \in 1..NumDocs |-> cosine_matrix[f[i]][f[j]]]]

\* The labelled unordered pairs of a table, named by the original documents.
LabelledPairs(rows, f) ==
    {<<{f[rows[k].doc_i + 1], f[rows[k].doc_j + 1]}, rows[k].condition>> : k \in DOMAIN rows}

Identity(n) == [k \in 1..n |-> k]

\* C4: the flags and the label the classifier computes for (a, b) are those
\* it computes for (b, a); classifying the documents in any other order
\* yields the same labelled unordered pairs; and a pair with equal clip and
\* equal context is labelled same_clip_same_context.
C4_OrderInvariant ==
    ClassifiedOK =>
        /\ \A f \in Perms(NumDocs) :
              LET out == classify(built_by, PermutedMatrix(f), PermutedDocs(f))
              IN  /\ ~out.raised
                  /\ Len(out.rows) = Len(sim_df)
                  /\ LabelledPairs(out.rows, f) = LabelledPairs(sim_df, Identity(NumDocs))
        /\ \A a, b \in 0..(NumDocs - 1) :
              a # b =>
                LET r1 == pair_record(cosine_matrix, METdocs, a, b)
                    r2 == pair_record(cosine_matrix, METdocs, b, a)
                IN  /\ r1.same_clip = r2.same_clip
                    /\ r1.same_context = r2.same_context
                    /\ r1.same_genre = r2.same_genre
                    /\ r1.condition = r2.condition
        /\ \A a, b \in 0..(NumDocs - 1) :
              ( /\ a < b
                /\ METdocs[a + 1].clip_name = METdocs[b + 1].clip_name
                /\ METdocs[a + 1].context_word = METdocs[b + 1].context_word )
              => CondOf(a, b) = "same_clip_same_context"

C4_Witness ==
    /\ ClassifiedOK
    /\ NumDocs = 3
    /\ built_by = "analysis_utils"
    /\ METdocs[1].clip_name = METdocs[3].clip_name
    /\ METdocs[1].context_word = METdocs[3].context_word
    /\ METdocs[1].context_word # METdocs[2].context_word
    /\ METdocs[1].genre_code # METdocs[3].genre_code
    /\ CountCond("same_clip_same_context") = 1

\* Every off-diagonal entry of the matrix is 0.5.
AllHalf ==
    \A i, j \in 1..Len(cosine_matrix) : i # j => cosine_matrix[i][j] = 5

\* C5: for the 4-document scenario with all off-diagonal similarities 0.5
\* the table has 6 records of similarity 0.5, and the pairs (0,1), (0,2),
\* (0,3), (2,3) are labelled same_clip_diff_context, diff_clip_same_context,
\* diff_clip_diff_context_diff_genre, same_clip_diff_context.
C5_Scenario ==
    (pc = "classified" /\ METdocs = ScenarioDocs /\ Len(cosine_matrix) = 4 /\ AllHalf) =>
        /\ Len(sim_df) = 6
        /\ \A k \in DOMAIN sim_df : sim_df[k].similarity = 5
        /\ RowsOf(0, 1) # {} /\ CondOf(0, 1) = "same_clip_diff_context"
        /\ RowsOf(0, 2) # {} /\ CondOf(0, 2) = "diff_clip_same_context"
        /\ RowsOf(0, 3) # {} /\ CondOf(0, 3) = "diff_clip_diff_context_diff_genre"
        /\ RowsOf(2, 3) # {} /\ CondOf(2, 3) = "same_clip_diff_context"

C5_Witness ==
    /\ pc = "classified"
    /\ METdocs = ScenarioDocs
    /\ Len(cosine_matrix) = 4
    /\ AllHalf
    /\ built_by = "analysis_utils"
    /\ Len(sim_df) = 6

----------------------------------------------------------------------------
(* Properties of the comparator and of the statistics primitives.          *)

\* C6: compare_conditions (every copy) returns None, without raising, exactly
\* when one of the two named conditions matches fewer than 2 records of the
\* table, a label that does not occur included; otherwise it returns a
\* record, whose group sizes are the two counts, both at least 2.
C6_InsufficientData ==
    (pc = "called" /\ res.fn = "compare_conditions") =>
        /\ res.out.kind \in {"none", "record"}
        /\ res.out.kind = "none" <=>
              (CountCond(res.cond1) < 2 \/ CountCond(res.cond2) < 2)
        /\ res.out.kind = "record" =>
              /\ res.out.n1 = CountCond(res.cond1) /\ res.out.n1 >= 2
              /\ res.out.n2 = CountCond(res.cond2) /\ res.out.n2 >= 2

C6_Witness ==
    /\ pc = "called"
    /\ res.fn = "compare_conditions"
    /\ res.module = "analysis_utils"
    /\ CountCond(res.cond1) = 1
    /\ CountCond(res.cond2) >= 2
    /\ res.out.kind = "none"

\* n * sum(x^2) - sum(x)^2 and n * (n - 1): the sample variance is their quotient.
VarNum(xs) == Len(xs) * SeqSumSq(xs) - SeqSum(xs) * SeqSum(xs)

VarDen(xs) == Len(xs) * (Len(xs) - 1)

\* Numerator of sd1^2 + sd2^2 over the denominator VarDen(a) * VarDen(b).
PooledNum(a, b) == VarNum(a) * VarDen(b) + VarNum(b) * VarDen(a)

\* Numerator of mean1 - mean2 over the denominator Len(a) * Len(b).
DiffNum(a, b) == SeqSum(a) * Len(b) - SeqSum(b) * Len(a)

\* x is the value (mean1 - mean2) / sqrt((sd1^2 + sd2^2) / 2) of samples a, b.
IsCohensD(x, a, b) ==
    /\ x.k = "num"
    /\ x.s = Sign(DiffNum(a, b))
    /\ x.n * (Len(a) * Len(b) * Len(a) * Len(b) * PooledNum(a, b))
         = x.d * (DiffNum(a, b) * DiffNum(a, b) * 2 * VarDen(a) * VarDen(b))

\* C7: every copy of the effect-size computation, on two samples of at least
\* two values, yields (mean1 - mean2) / sqrt((sd1^2 + sd2^2) / 2) when the
\* pooled SD is positive and NaN, never an infinity, when it is 0.
C7_EffectSizeGuarded ==
    (pc = "called" /\ res.fn = "cohens_d" /\ Len(sample1) >= 2 /\ Len(sample2) >= 2) =>
        IF PooledNum(sample1, sample2) > 0
        THEN IsCohensD(res.d, sample1, sample2)
        ELSE res.d = NaN

\* The copies of the effect size that test the pooled SD before dividing.
GuardedEffectSizeCopies == {"compute_cohens_d", "nlp_binary_d", "nlp_d"}

MarkerTable(p) ==
    CASE p.k = "nan" -> "n.s."
      [] p.k = "num" /\ p.v < 10 -> "***"
      [] p.k = "num" /\ 10 <= p.v /\ p.v < 100 -> "**"
      [] p.k = "num" /\ 100 <= p.v /\ p.v < 500 -> "*"
      [] p.k = "num" /\ 500 <= p.v -> "n.s."

\* C9: the marker is '***' for p < 0.001, '**' for 0.001 <= p < 0.01, '*' for
\* 0.01 <= p < 0.05 and 'n.s.' for p >= 0.05 and for NaN, and every copy of
\* the marker logic gives the same marker for the same p.
C9_Marker ==
    (pc = "called" /\ res.fn = "sig") =>
        /\ res.sig = MarkerTable(p_in)
        /\ \A c \in MarkerCopies : marker_of(c, p_in) = res.sig

C9_Witness ==
    /\ pc = "called"
    /\ res.fn = "sig"
    /\ res.copy = "get_significance_marker"
    /\ p_in = PNum(10)
    /\ res.sig = "**"

\* x is the value SD / mean of the sample xs (NaN when the SD is undefined).
IsCV(x, xs) ==
    IF Len(xs) < 2 THEN x = NaN
    ELSE /\ x.k = "num"
         /\ x.s = (IF VarNum(xs) = 0 THEN 0 ELSE Sign(SeqSum(xs)))
         /\ x.n * (VarDen(xs) * SeqSum(xs) * SeqSum(xs))
              = x.d * (VarNum(xs) * Len(xs) * Len(xs))

\* C10: every copy of the coefficient of variation of a level's pair set
\* yields NaN, not an infinity, when the mean of the set is exactly 0, and
\* SD / mean otherwise.
C10_CVGuarded ==
    (pc = "called" /\ res.fn = "cv") =>
        IF SeqSum(sample1) = 0
        THEN res.cv = NaN
        ELSE IsCV(res.cv, sample1)

----------------------------------------------------------------------------
(* Properties of the binary comparator, the combined comparisons and the   *)
(* omnibus test.                                                           *)

\* Records of the table whose boolean column has the value flag.
FlagRows(column, flag) == {k \in DOMAIN sim_df : sim_df[k][column] = flag}

\* C13: compare_binary (every copy) returns a result record for any table,
\* never None and never an exception, also when a group is empty or has one
\* record; n_same and n_diff count the records with the column true and
\* false, and add up to the number of records.
C13_BinaryNoMinimum ==
    (pc = "called" /\ res.fn = "compare_binary") =>
        /\ res.out.kind = "record"
        /\ res.out.n_same = Cardinality(FlagRows(res.column, TRUE))
        /\ res.out.n_diff = Cardinality(FlagRows(res.column, FALSE))
        /\ res.out.n_same + res.out.n_diff = Len(sim_df)

C13_Witness ==
    /\ pc = "called"
    /\ res.fn = "compare_binary"
    /\ res.module = "analysis_utils"
    /\ FlagRows(res.column, TRUE) = {}
    /\ Cardinality(FlagRows(res.column, FALSE)) = 1
    /\ res.out.kind = "record"
    /\ res.out.n_same = 0 /\ res.out.n_diff = 1

\* The condition labels occurring in the table.
ConditionsPresent == {sim_df[k].condition : k \in DOMAIN sim_df}

\* The records labelled c.
CondRows(c) == {k \in DOMAIN sim_df : sim_df[k].condition = c}

RECURSIVE SumSim(_)
\* Sum of the similarities of a set of records.
SumSim(I) ==
    IF I = {} THEN 0
    ELSE LET k == CHOOSE x \in I : TRUE IN sim_df[k].similarity + SumSim(I \ {k})

RECURSIVE SumSimSq(_)
SumSimSq(I) ==
    IF I = {} THEN 0
    ELSE LET k == CHOOSE x \in I : TRUE
         IN  sim_df[k].similarity * sim_df[k].similarity + SumSimSq(I \ {k})

RECURSIVE ProdSizes(_)
\* Product of the sizes of the groups of a set of conditions.
ProdSizes(C) ==
    IF C = {} THEN 1
    ELSE LET c == CHOOSE x \in C : TRUE IN Cardinality(CondRows(c)) * ProdSizes(C \ {c})

RECURSIVE BetweenNum(_, _)
\* Sum over the groups g of (S_g * N - S * n_g)^2 * (L / n_g), with L the
\* product of all group sizes: SS_between * N^2 * L.
BetweenNum(C, L) ==
    IF C = {} THEN 0
    ELSE LET c == CHOOSE x \in C : TRUE
             n_g == Cardinality(CondRows(c))
             dev == SumSim(CondRows(c)) * Len(sim_df) - SumSim(DOMAIN sim_df) * n_g
         IN  dev * dev * (L \div n_g) + BetweenNum(C \ {c}, L)

\* N * sum(x^2) - sum(x)^2: SS_total * N.
TotalNum == Len(sim_df) * SumSimSq(DOMAIN sim_df) - SumSim(DOMAIN sim_df) * SumSim(DOMAIN sim_df)

\* x is SS_between / SS_total of the table grouped by condition (NaN for 0 / 0).
IsEtaSquared(x) ==
    IF TotalNum = 0 THEN x = NaN
    ELSE /\ x.k = "num" /\ x.s >= 0
         /\ RatN(x) * (ProdSizes(ConditionsPresent) * Len(sim_df) * TotalNum)
              = RatD(x) * BetweenNum(ConditionsPresent, ProdSizes(ConditionsPresent))

\* C17 as stated: for every table the omnibus test accepts, n_conditions is
\* 5 and eta_squared is SS_between / SS_total over the groups by condition.
C17_FiveConditions ==
    (pc = "called" /\ res.fn = "run_omnibus_test" /\ res.out.kind = "dict") =>
        /\ res.out.n_conditions = 5
        /\ IsEtaSquared(res.out.eta_squared)

\* C17 amended: the omnibus test accepts exactly the tables in which at
\* least two condition labels occur; n_conditions is the number of labels
\* that occur (5 only when all five do), and eta_squared is SS_between /
\* SS_total over the groups of the occurring labels.
C17_PresentConditions ==
    (pc = "called" /\ res.fn = "run_omnibus_test") =>
        /\ res.out.kind = "dict" <=> Cardinality(ConditionsPresent) >= 2
        /\ res.out.kind = "dict" =>
              /\ res.out.n_conditions = Cardinality(ConditionsPresent)
              /\ res.out.n_conditions = 5 <=> ConditionsPresent = FiveConditions
              /\ IsEtaSquared(res.out.eta_squared)

C17_Witness ==
    /\ pc = "called"
    /\ res.fn = "run_omnibus_test"
    /\ res.out.kind = "dict"
    /\ res.out.n_conditions = 5
    /\ res.out.eta_squared.k = "num"
    /\ res.out.eta_squared.s = 1

\* C19: run_combined_comparisons completes without raising, and when a
\* compared condition has fewer than 2 records the entry of that comparison
\* in the returned dict is None.
C19_CombinedRecoverable ==
    (pc = "called" /\ res.fn = "run_combined_comparisons") =>
        /\ res.out.kind = "dict"
        /\ (CountCond("same_clip_diff_context") < 2 \/ CountCond("diff_clip_same_context") < 2)
              => res.out.primary = None
        /\ (CountCond("diff_clip_diff_context_same_genre") < 2
              \/ CountCond("diff_clip_diff_context_diff_genre") < 2)
              => res.out.genre = None

----------------------------------------------------------------------------
(* Properties of the factor analyses.                                      *)

\* The levels of a factor: the values its metadata column takes.
LevelsOf(factor_name) == {METdocs[k][factor_column_of(factor_name)] : k \in DOMAIN METdocs}

\* The level of a document, read from the metadata.
LevelOfDoc(factor_name, doc) == METdocs[doc + 1][factor_column_of(factor_name)]

\* The rows of the within-level set of level L: different clips under the
\* same context for Context, different clips of the same genre for Genre,
\* both documents at level L.
WithinLevelSet(factor_name, L) ==
    {k \in DOMAIN sim_df :
        /\ IF factor_name = "Context"
           THEN sim_df[k].condition = "diff_clip_same_context"
           ELSE sim_df[k].same_genre /\ ~sim_df[k].same_clip
        /\ LevelOfDoc(factor_name, sim_df[k].doc_i) = L
        /\ LevelOfDoc(factor_name, sim_df[k].doc_j) = L}

\* The table has what the analysis of module m reads: the factor's label
\* columns, or for nlp_analysis_utils its index columns.
HasLabels(m, factor_name) ==
    lower(factor_name) \in sim_cols \/ m = "nlp_analysis_utils"

\* C11: a level with exactly one pair in its within-level set gets a row of
\* analyze_within_factor_similarity with n = 1, the pair's similarity as
\* mean, NaN as standard deviation and NaN as CV, and the call does not raise.
C11_SinglePairLevel ==
    (res.fn = "analyze_within_factor_similarity" /\ HasLabels(res.module, res.factor))
    => \A L \in LevelsOf(res.factor) :
          Cardinality(WithinLevelSet(res.factor, L)) = 1
          => /\ res.out.kind = "table"
             /\ \E x \in DOMAIN res.out.rows :
                   LET row == res.out.rows[x]
                   IN  /\ row.level = L
                       /\ row.n = 1
                       /\ \A k \in WithinLevelSet(res.factor, L) :
                             row.mean = Rat(sim_df[k].similarity, 1)
                       /\ IsNaN(row.std)
                       /\ IsNaN(row.cv)

C11_Witness ==
    /\ res.fn = "analyze_within_factor_similarity"
    /\ res.module = "analysis_utils"
    /\ res.factor = "Context"
    /\ Cardinality(WithinLevelSet("Context", "X")) = 1
    /\ Cardinality(WithinLevelSet("Context", "Y")) = 1
    /\ res.out.kind = "table"
    /\ Len(res.out.rows) = 2
    /\ res.out.rows[1].mean # res.out.rows[2].mean
    /\ \A x \in 1..2 : res.out.rows[x].n = 1 /\ IsNaN(res.out.rows[x].std)

\* The mean similarity of a non-empty set of rows.
MeanOfSet(S) == Rat(SumSim(S), Cardinality(S))

\* The result is a table of per-level rows of a within-factor analysis.
IsLevelTable ==
    \/ res.fn = "analyze_within_factor_similarity" /\ res.out.kind = "table"
    \/ res.fn = "analyze_factor_consistency" /\ res.out.kind = "tables"

\* C14: in the within-level, pairwise and consistency analyses the pair set
\* of a level L is, for Context, the diff_clip_same_context pairs with both
\* documents under context L and, for Genre, the pairs of different clips of
\* the same genre (under any condition) with both documents of genre L:
\* every row is computed from that set.
C14_WithinLevelSets ==
    /\ IsLevelTable
       => \A x \in DOMAIN res.out.rows :
             LET row == res.out.rows[x]
                 S == WithinLevelSet(res.factor, row.level)
             IN  row.n = Cardinality(S) /\ row.mean = MeanOfSet(S)
    /\ (res.fn = "analyze_pairwise_factor_comparisons" /\ res.out.kind = "table")
       => \A x \in DOMAIN res.out.rows :
             LET row == res.out.rows[x]
             IN  /\ WithinLevelSet(res.factor, row.level1) # {}
                 /\ WithinLevelSet(res.factor, row.level2) # {}
                 /\ row.mean1 = MeanOfSet(WithinLevelSet(res.factor, row.level1))
                 /\ row.mean2 = MeanOfSet(WithinLevelSet(res.factor, row.level2))

\* The clip-driven set of level L: same clip under different contexts, with
\* either document at L for Context and both documents at L for Genre.
ClipDrivenSet(factor_name, L) ==
    {k \in DOMAIN sim_df :
        /\ sim_df[k].condition = "same_clip_diff_context"
        /\ IF factor_name = "Context"
           THEN \/ LevelOfDoc(factor_name, sim_df[k].doc_i) = L
                \/ LevelOfDoc(factor_name, sim_df[k].doc_j) = L
           ELSE /\ LevelOfDoc(factor_name, sim_df[k].doc_i) = L
                /\ LevelOfDoc(factor_name, sim_df[k].doc_j) = L}

\* The context-driven set of level L: different clips under the same
\* context, both documents at L.
ContextDrivenSet(factor_name, L) ==
    {k \in DOMAIN sim_df :
        /\ sim_df[k].condition = "diff_clip_same_context"
        /\ LevelOfDoc(factor_name, sim_df[k].doc_i) = L
        /\ LevelOfDoc(factor_name, sim_df[k].doc_j) = L}

\* The rows of a per-level clip-versus-context comparison: the result of
\* analyze_factor_clip_vs_context, or the second table of
\* analyze_factor_consistency.
ComparisonRows ==
    IF res.fn = "analyze_factor_clip_vs_context" /\ res.out.kind = "table" THEN res.out.rows
    ELSE IF res.fn = "analyze_factor_consistency" /\ res.out.kind = "tables" THEN res.out.comparison
    ELSE <<>>

\* C16: in the per-level clip-versus-context and consistency comparisons the
\* clip-driven group of level L is the same_clip_diff_context pairs with
\* either document at L for the Context factor and with both documents at L
\* for Genre, and the context-driven group is the diff_clip_same_context
\* pairs with both documents at L.
C16_ClipAndContextGroups ==
    \A x \in DOMAIN ComparisonRows :
       LET row == ComparisonRows[x]
           clip == ClipDrivenSet(res.factor, row.level)
           context == ContextDrivenSet(res.factor, row.level)
       IN  /\ row.n_clip = Cardinality(clip)
           /\ row.n_context = Cardinality(context)
           /\ row.clip_mean = MeanOfSet(clip)
           /\ row.context_mean = MeanOfSet(context)

C16_Witness ==
    /\ res.fn = "analyze_factor_clip_vs_context"
    /\ res.module = "nlp_analysis_utils"
    /\ res.factor = "Context"
    /\ res.out.kind = "table"
    /\ Len(res.out.rows) = 2
    /\ res.out.rows[1].n_clip = 2
    /\ res.out.rows[1].n_context = 3
    /\ res.out.rows[1].clip_mean # res.out.rows[1].context_mean

\* C20: in the per-level comparisons (pairwise, clip versus context, and the
\* consistency comparison) a level with a group of fewer than 2 observations
\* gives no row and no exception: a row is there only when both groups have
\* at least 2.
C20_MinimumTwo ==
    /\ \A x \in DOMAIN ComparisonRows :
          ComparisonRows[x].n_clip >= 2 /\ ComparisonRows[x].n_context >= 2
    /\ (res.fn = "analyze_pairwise_factor_comparisons" /\ lower(res.factor) \in sim_cols)
       => /\ res.out.kind = "table"
          /\ \A x \in DOMAIN res.out.rows :
                /\ Cardinality(WithinLevelSet(res.factor, res.out.rows[x].level1)) >= 2
                /\ Cardinality(WithinLevelSet(res.factor, res.out.rows[x].level2)) >= 2

\* The levels that have at least one pair in their within-level set.
LevelsWithPairs(factor_name) ==
    {L \in LevelsOf(factor_name) : WithinLevelSet(factor_name, L) # {}}

\* The table has one row for each level with a pair, and no other row.
RowsCoverLevels(rows, factor_name) ==
    /\ {rows[x].level : x \in DOMAIN rows} = LevelsWithPairs(factor_name)
    /\ Len(rows) = Cardinality(LevelsWithPairs(factor_name))

\* C15: the rows of analyze_within_factor_similarity are in non-increasing
\* order of mean, those of the first table of analyze_factor_consistency in
\* non-decreasing order of CV (no row has a smaller CV than an earlier one),
\* and each table has exactly the levels with at least one pair in their
\* within-level set.
C15_TwoOrderings ==
    /\ (res.fn = "analyze_within_factor_similarity" /\ res.out.kind = "table")
       => /\ \A a, b \in DOMAIN res.out.rows :
                a < b => ~FLess(res.out.rows[a].mean, res.out.rows[b].mean)
          /\ RowsCoverLevels(res.out.rows, res.factor)
    /\ (res.fn = "analyze_factor_consistency" /\ res.out.kind = "tables")
       => /\ \A a, b \in DOMAIN res.out.rows :
                a < b => ~FLess(res.out.rows[b].cv, res.out.rows[a].cv)
          /\ RowsCoverLevels(res.out.rows, res.factor)

\* A consistency table whose CV order is the reverse of the order by mean.
C15_Witness ==
    /\ res.fn = "analyze_factor_consistency"
    /\ res.module = "analysis_utils"
    /\ res.out.kind = "tables"
    /\ Len(res.out.rows) = 2
    /\ FLess(res.out.rows[1].cv, res.out.rows[2].cv)
    /\ FLess(res.out.rows[1].mean, res.out.rows[2].mean)

\* The diff_clip_same_context rows of the cell (genre, context): those whose
\* first document has that genre and that context.
CellSet(genre, context) ==
    {k \in DOMAIN sim_df :
        /\ sim_df[k].condition = "diff_clip_same_context"
        /\ METdocs[sim_df[k].doc_i + 1].genre_code = genre
        /\ METdocs[sim_df[k].doc_i + 1].context_word = context}

InteractionReturned ==
    res.fn = "analyze_genre_context_interaction" /\ res.out.kind = "table"

\* Every row is computed from the diff_clip_same_context pairs of its cell.
RowsFromCells ==
    \A x \in DOMAIN res.out.rows :
       LET row == res.out.rows[x]
           S == CellSet(row.genre, row.context)
       IN  /\ S # {}
           /\ row.n = Cardinality(S)
           /\ row.mean = MeanOfSet(S)
           /\ IsNaN(row.std) <=> Cardinality(S) < 2
           /\ \A y \in DOMAIN res.out.rows :
                 (res.out.rows[y].genre = row.genre /\ res.out.rows[y].context = row.context)
                 => y = x

\* C18 as stated: the interaction table has one row for every combination
\* of a genre and a context occurring in the metadata, computed over the
\* diff_clip_same_context pairs of that combination only.
C18_EveryCombination ==
    InteractionReturned
    => /\ RowsFromCells
       /\ \A genre \in LevelsOf("Genre"), context \in LevelsOf("Context") :
             \E x \in DOMAIN res.out.rows :
                res.out.rows[x].genre = genre /\ res.out.rows[x].context = context

\* C18, amended: the interaction table has one row for every combination of
\* a genre and a context occurring in the metadata that has at least one
\* diff_clip_same_context pair, and no row for the other combinations; each
\* row is computed over the diff_clip_same_context pairs of its combination
\* only.
C18_CombinationsWithPairs ==
    InteractionReturned
    => /\ RowsFromCells
       /\ \A genre \in LevelsOf("Genre"), context \in LevelsOf("Context") :
             CellSet(genre, context) # {}
             <=> \E x \in DOMAIN res.out.rows :
                    res.out.rows[x].genre = genre /\ res.out.rows[x].context = context

\* A table with a cell of several pairs, one of them of two genres, and a
\* combination that has no row.
C18_Witness ==
    /\ InteractionReturned
    /\ \E x \in DOMAIN res.out.rows :
          /\ res.out.rows[x].n > 1
          /\ \E k \in CellSet(res.out.rows[x].genre, res.out.rows[x].context) :
                ~sim_df[k].same_genre
    /\ \E genre \in LevelsOf("Genre"), context \in LevelsOf("Context") :
          \A x \in DOMAIN res.out.rows :
             ~(res.out.rows[x].genre = genre /\ res.out.rows[x].context = context)

\* The columns of a Pair Record.
PairFields ==
    {"doc_i", "doc_j", "similarity", "same_clip", "same_context", "same_genre", "condition"}

----------------------------------------------------------------------------
(* Properties of the label columns, of the inputs and of the empty cases.  *)

\* The same_clip_diff_context rows whose two context labels are both L.
ClipAndBothAt(L) ==
    {k \in DOMAIN sim_df :
        /\ sim_df[k].condition = "same_clip_diff_context"
        /\ sim_df[k].context_i = L
        /\ sim_df[k].context_j = L}

\* C21: for the Context factor no same_clip_diff_context record has both
\* documents under the same context: once the context labels are in the
\* table, the AND-filtered set of every level is empty.
C21_AndFilterEmpty ==
    "context" \in sim_cols
    => \A L \in LevelsOf("Context") : ClipAndBothAt(L) = {}

\* A labelled table with a same_clip_diff_context record, whose two context
\* labels differ, and a record of another condition at one level.
C21_Witness ==
    /\ "context" \in sim_cols
    /\ built_by = "nlp_analysis_utils"
    /\ \E k \in DOMAIN sim_df :
          /\ sim_df[k].condition = "same_clip_diff_context"
          /\ sim_df[k].context_i = "X"
          /\ sim_df[k].context_j = "Y"
    /\ \E k \in DOMAIN sim_df :
          /\ sim_df[k].condition # "same_clip_diff_context"
          /\ sim_df[k].context_i = sim_df[k].context_j

\* The records the within-level analyses of a factor select before they
\* split them by level.
FilteredPairs(factor_name) ==
    {k \in DOMAIN sim_df :
        IF factor_name = "Context"
        THEN sim_df[k].condition = "diff_clip_same_context"
        ELSE sim_df[k].same_genre /\ ~sim_df[k].same_clip}

RECURSIVE SumN(_, _)
\* The sum of the n column of the rows from index k on.
SumN(rows, k) == IF k > Len(rows) THEN 0 ELSE rows[k].n + SumN(rows, k + 1)

\* C26: the within-level sets of a factor partition its filtered pairs: the
\* sets of distinct levels are disjoint, their union is the set of filtered
\* records, and the n values of a returned analyze_within_factor_similarity
\* table add up to the number of filtered records.
C26_LevelsPartition ==
    /\ \A f \in FactorNames :
          /\ \A L1, L2 \in LevelsOf(f) :
                L1 # L2 => WithinLevelSet(f, L1) \cap WithinLevelSet(f, L2) = {}
          /\ UNION {WithinLevelSet(f, L) : L \in LevelsOf(f)} = FilteredPairs(f)
    /\ (/\ res.fn = "analyze_within_factor_similarity"
        /\ res.out.kind = "table")
       => SumN(res.out.rows, 1) = Cardinality(FilteredPairs(res.factor))

\* A Genre table of two levels with pairs, from a table that also has
\* pairs of one clip and pairs of different genres.
C26_Witness ==
    /\ res.fn = "analyze_within_factor_similarity"
    /\ res.factor = "Genre"
    /\ res.out.kind = "table"
    /\ Len(res.out.rows) = 2
    /\ \E k \in DOMAIN sim_df : sim_df[k].same_clip
    /\ \E k \in DOMAIN sim_df : ~sim_df[k].same_genre

\* The diff_clip_same_context records of the table.
SameContextPairs == {k \in DOMAIN sim_df : sim_df[k].condition = "diff_clip_same_context"}

\* The rows of the interaction table that count record k: those of the cell
\* of the genre and the context of the record's document doc_i.
RowsCounting(k) ==
    {x \in DOMAIN res.out.rows :
        /\ res.out.rows[x].genre = METdocs[sim_df[k].doc_i + 1].genre_code
        /\ res.out.rows[x].context = METdocs[sim_df[k].doc_i + 1].context_word}

\* C27: in the interaction table every diff_clip_same_context record is
\* counted in exactly one cell, that of the genre and the context of its
\* lower-indexed document doc_i; the n column sums to the number of such
\* records, and the cell of the other document's genre does not count a
\* pair of two genres.
C27_OneCellPerRecord ==
    InteractionReturned
    => /\ SumN(res.out.rows, 1) = Cardinality(SameContextPairs)
       /\ \A k \in SameContextPairs :
             /\ sim_df[k].doc_i < sim_df[k].doc_j
             /\ Cardinality(RowsCounting(k)) = 1
       /\ \A x \in DOMAIN res.out.rows :
             res.out.rows[x].n =
                Cardinality({k \in SameContextPairs :
                    /\ METdocs[sim_df[k].doc_i + 1].genre_code = res.out.rows[x].genre
                    /\ METdocs[sim_df[k].doc_i + 1].context_word = res.out.rows[x].context})

\* An interaction table of several cells from a table with a pair of two
\* genres under one context.
C27_Witness ==
    /\ InteractionReturned
    /\ Len(res.out.rows) >= 2
    /\ \E k \in SameContextPairs :
          METdocs[sim_df[k].doc_i + 1].genre_code # METdocs[sim_df[k].doc_j + 1].genre_code

\* No level of the factor of the last call has a pair in its within-level set.
NoLevelHasPairs == \A L \in LevelsOf(res.factor) : WithinLevelSet(res.factor, L) = {}

\* The three analyses of analysis_utils that sort their per-level results.
SortedAnalyses ==
    {"analyze_within_factor_similarity", "analyze_pairwise_factor_comparisons",
     "analyze_factor_consistency"}

\* C30: when no level has a pair in its within-level set, the within-level
\* analysis, the pairwise comparison and the consistency analysis each
\* return an empty table and none raises.
C30_EmptyTables ==
    (/\ res.fn \in SortedAnalyses
     /\ res.module = "analysis_utils"
     /\ lower(res.factor) \in sim_cols
     /\ NoLevelHasPairs)
    => /\ res.out.kind # "raised"
       /\ res.out.rows = <<>>

\* The label columns a call for factor f is to add: those the analyses of f
\* read, named after factor_column.split('_')[0].
LabelColumns(f) ==
    {label_i(get_factor_key(factor_column_of(f))), label_j(get_factor_key(factor_column_of(f)))}

\* The columns of a table that has the labels of the factors in cols.
ColumnsWith(cols) ==
    PairFields \cup UNION {LabelColumns(f) : f \in {g \in FactorNames : lower(g) \in cols}}

\* After a call of run_factor_analysis on a table with a doc_i column the
\* table has exactly the label columns the analyses read, each record's
\* labels are its documents' metadata values, and the two labels are equal
\* exactly when the record's same_context / same_genre flag is set.
LabelsAsRead ==
    (res.fn = "run_factor_analysis" /\ built_by # "nlp_analysis_utils")
    => /\ lower(res.factor) \in sim_cols
       /\ \A k \in DOMAIN sim_df :
             /\ DOMAIN sim_df[k] = ColumnsWith(sim_cols)
             /\ \A f \in FactorNames :
                   lower(f) \in sim_cols
                   => LET key == get_factor_key(factor_column_of(f))
                          flag == IF f = "Context" THEN sim_df[k].same_context
                                  ELSE sim_df[k].same_genre
                      IN  /\ sim_df[k][label_i(key)] = LevelOfDoc(f, sim_df[k].doc_i)
                          /\ sim_df[k][label_j(key)] = LevelOfDoc(f, sim_df[k].doc_j)
                          /\ (sim_df[k][label_i(key)] = sim_df[k][label_j(key)]) <=> flag

\* A call of run_factor_analysis for a factor whose labels are in the table
\* leaves the table as it was.
SecondCallKeepsColumns ==
    \A f \in FactorNames :
       (res'.fn = "run_factor_analysis" /\ res'.factor = f /\ lower(f) \in sim_cols)
       => (sim_df' = sim_df /\ sim_cols' = sim_cols)

\* C29: after run_factor_analysis for either supported descriptor the
\* columns added are exactly <key>_i and <key>_j with key the first part of
\* factor_column, every record has <key>_i = metadata[factor_column][doc_i]
\* and <key>_j = metadata[factor_column][doc_j], so their equality is the
\* record's same_context / same_genre flag, and a second call for the same
\* factor leaves the columns unchanged.
C29_LabelsMatchMetadata == [](LabelsAsRead) /\ [][SecondCallKeepsColumns]_vars

\* Both factors labelled by run_factor_analysis, the last call returning
\* its five tables, on a table with records of equal and of unequal labels.
C29_Witness ==
    /\ res.fn = "run_factor_analysis"
    /\ res.out.kind = "tuple"
    /\ sim_cols = {"context", "genre"}
    /\ \E k \in DOMAIN sim_df : sim_df[k].context_i # sim_df[k].context_j
    /\ \E k \in DOMAIN sim_df : sim_df[k].genre_i = sim_df[k].genre_j

\* A step of an analysis function leaves the table it is given as it was,
\* and every step leaves the metadata and the matrix as they were.
InputsKept ==
    /\ METdocs' = METdocs
    /\ cosine_matrix' = cosine_matrix
    /\ pc = "classified" => (sim_df' = sim_df /\ sim_cols' = sim_cols)

\* C23: every analysis function leaves its inputs unchanged: after a call
\* of the classifier, of a within-level analysis, of run_factor_analysis or
\* of the interaction analysis, the pair table passed in has the columns,
\* rows and values it had, and so has the metadata.
C23_InputsUnchanged == [][InputsKept]_vars

\* The table of the classifier has the seven Pair Record columns only.
FreshTableUnlabelled ==
    sim_cols = {} => \A k \in DOMAIN sim_df : DOMAIN sim_df[k] = PairFields

\* Label columns appear in the table only in a call of run_factor_analysis,
\* and that call adds those of its factor.
LabelsOnlyFromRun ==
    sim_cols' # sim_cols
    => /\ res'.fn = "run_factor_analysis"
       /\ sim_cols' = sim_cols \cup {lower(res'.factor)}

\* A within-level analysis of analysis_utils or NLP_functions returns a
\* table only from a table that has the label columns of its factor.
WithinNeedsLabels ==
    (/\ res.fn = "analyze_within_factor_similarity"
     /\ res.module \in {"analysis_utils", "analysis_functions"}
     /\ res.out.kind = "table")
    => lower(res.factor) \in sim_cols

\* The interaction analysis returns a table only from a table that has the
\* label columns of both factors, and raises KeyError from any other.
InteractionNeedsLabels ==
    res.fn = "analyze_genre_context_interaction"
    => /\ res.out.kind = "table" => sim_cols = {"context", "genre"}
       /\ sim_cols # {"context", "genre"} => res.out = Raised("KeyError")

\* C28 as stated: the classifier's table has no label columns; from a
\* freshly classified table analyze_genre_context_interaction completes only
\* after run_factor_analysis has added the labels of Context and of Genre and
\* fails with a missing-column error otherwise, and a within-level analysis
\* of a factor completes only after that factor's labels exist.
C28_CallOrder ==
    /\ [](FreshTableUnlabelled /\ WithinNeedsLabels /\ InteractionNeedsLabels)
    /\ [][LabelsOnlyFromRun]_vars

\* C28, amended: as stated, for metadata of at least one document; on empty
\* metadata analyze_genre_context_interaction of analysis_utils reads no
\* column and returns an empty table whether or not the labels exist.
C28_CallOrderWithDocuments ==
    /\ [](/\ FreshTableUnlabelled
          /\ WithinNeedsLabels
          /\ METdocs # <<>> => InteractionNeedsLabels)
    /\ [][LabelsOnlyFromRun]_vars

\* The interaction analysis returning rows, from a table labelled for both
\* factors.
C28_Witness ==
    /\ res.fn = "analyze_genre_context_interaction"
    /\ res.out.kind = "table"
    /\ res.out.rows # <<>>
    /\ sim_cols = {"context", "genre"}

\* C22: when the number of metadata rows differs from the dimension of the
\* matrix, whichever is larger, the classifier raises and returns no table;
\* it never returns a table built from part of the documents.
C22_FailsFast ==
    (pc \in {"classified", "raised"} /\ Len(METdocs) # Shape0(cosine_matrix))
    => /\ pc = "raised"
       /\ sim_df = <<>>

\* Two matrices of one dimension with the same entries above the diagonal.
AgreeAbove(M1, M2) ==
    /\ Len(M1) = Len(M2)
    /\ \A i, j \in 1..Len(M1) : i < j => M1[i][j] = M2[i][j]

\* C24: the classifier reads only the entries above the diagonal: each
\* record's similarity is matrix[doc_i][doc_j] with doc_i < doc_j, and two
\* matrices equal above the diagonal, whatever their diagonals and lower
\* triangles, give the same table for the same metadata.
C24_UpperTriangleOnly ==
    /\ pc \in {"classified", "rerun"}
       => \A k \in DOMAIN sim_df :
             /\ sim_df[k].doc_i < sim_df[k].doc_j
             /\ sim_df[k].similarity = cosine_matrix[sim_df[k].doc_i + 1][sim_df[k].doc_j + 1]
    /\ (pc = "rerun" /\ AgreeAbove(res.matrix, cosine_matrix))
       => /\ ~res.out.raised
          /\ res.out.rows = sim_df

\* Two calls on three documents whose matrices are equal above the
\* diagonal and differ on the diagonal and below it; the first matrix is
\* not symmetric.
C24_Witness ==
    /\ pc = "rerun"
    /\ Len(METdocs) = 3
    /\ AgreeAbove(res.matrix, cosine_matrix)
    /\ \E i \in 1..3 : res.matrix[i][i] # cosine_matrix[i][i]
    /\ \E i, j \in 1..3 : i > j /\ res.matrix[i][j] # cosine_matrix[i][j]
    /\ \E i, j \in 1..3 : cosine_matrix[i][j] # cosine_matrix[j][i]
    /\ res.out.rows = sim_df

\* Two results of compare_binary say the same: group sizes, difference,
\* marker and effect size.
BinaryAgree(a, b) ==
    /\ a.kind = b.kind
    /\ a.n_same = b.n_same /\ a.n_diff = b.n_diff
    /\ a.diff = b.diff
    /\ a.sig = b.sig
    /\ a.d = b.d

\* Two results of compare_conditions say the same: both None, or both a
\* record with the same group sizes, difference, marker and effect size.
ConditionsAgree(a, b) ==
    /\ a.kind = b.kind
    /\ a.kind = "record"
       => /\ a.n1 = b.n1 /\ a.n2 = b.n2
          /\ a.diff = b.diff
          /\ a.sig = b.sig
          /\ a.d = b.d

\* C25: the comparators of the three modules implement one contract: on
\* every table and for every argument, compare_binary and compare_conditions
\* of the three modules agree on whether a result is returned, on the group
\* sizes, on diff, on the marker and on Cohen's d, a pooled SD of 0 and
\* groups of fewer than 2 records included.  Each copy is compared with the
\* one of analysis_utils.
C25_OneContract ==
    pc = "classified"
    => /\ \A column \in FlagColumns :
             \A p \in ttest_ind_p(similarity_flag(sim_df, column, TRUE),
                                  similarity_flag(sim_df, column, FALSE)) :
                \A c \in Classifiers :
                   BinaryAgree(compare_binary(sim_df, column, p),
                               compare_binary_of(c, sim_df, column, p))
       /\ \A cond1, cond2 \in ConditionArgs :
             \A p \in ttest_ind_p(similarity_where(sim_df, cond1),
                                  similarity_where(sim_df, cond2)) :
                \A c \in Classifiers :
                   ConditionsAgree(compare_conditions(sim_df, cond1, cond2, p),
                                   compare_conditions_of(c, sim_df, cond1, cond2, p))

====
